---- MODULE Spec2Model ----
(***************************************************************************)
(* Model of the social-sharing backend: the in-memory entity store         *)
(* (InMemoryStorage), the credential manager (AuthenticationService),      *)
(* the friendship manager (FriendService), the post manager and the feed   *)
(* assembler (PostService / FeedService).                                  *)
(*                                                                         *)
(* Strings are sequences of one-character strings, so that toLowerCase     *)
(* and trim are computed and not assumed.  Ids produced by uuidv4 are      *)
(* modelled as the next unused positive integer; 0 stands for null (no     *)
(* acting user).  A JavaScript Map is a function whose DOMAIN is the key   *)
(* set, except the post map, whose insertion order is observable through   *)
(* getAllPosts and is therefore kept as a sequence.                        *)
(***************************************************************************)
EXTENDS Integers, Sequences, FiniteSets, TLC

\* ---------------------------------------------------------------- bounds
MaxUsers == 2
MaxRequests == 2
MaxPosts == 2
MaxTime == 1
MaxSessions == 2

VARIABLES
  users,            \* Map<string, User>
  usersByEmail,     \* Map<string, string>  email -> userId
  usersByUsername,  \* Map<string, string>  username -> userId
  friendRequests,   \* Map<string, FriendRequest>
  friendships,      \* Map<string, Friendship>, key `${userId}:${friendId}`
  friendsByUser,    \* Map<string, Set<string>>  userId -> Set<friendId>
  posts,            \* Map<string, Post>, in insertion order
  postsByAuthor,    \* Map<string, Set<string>>  authorId -> Set<postId>
  sessions,         \* Map<string, Session>
  sessionsByToken,  \* Map<string, string>  token -> sessionId
  sessionsByUser,   \* Map<string, Set<string>>  userId -> Set<sessionId>
  issued,           \* how many session ids and tokens uuidv4 / randomBytes gave out
  now,              \* the wall clock read by new Date() / Date.now()
  document,         \* the page: class list of each .page and .nav-link element
  state,            \* app.js `state` (its currentPage)
  result            \* the last call: operation, arguments, outcome

userVars == <<users, usersByEmail, usersByUsername>>
friendVars == <<friendRequests, friendships, friendsByUser>>
postVars == <<posts, postsByAuthor>>
sessionVars == <<sessions, sessionsByToken, sessionsByUser>>
storeVars == <<userVars, friendVars, postVars, sessionVars>>
pageVars == <<document, state>>
vars == <<users, usersByEmail, usersByUsername,
          friendRequests, friendships, friendsByUser,
          posts, postsByAuthor,
          sessions, sessionsByToken, sessionsByUser, issued, now,
          document, state, result>>

\* ------------------------------------------------------- JavaScript values
undefined == [undefined |-> TRUE]
\* null, undefined or '' where a user id is expected
NoUser == 0
\* an omitted visibility argument
NoVisibility == "undefined"

\* Map.set(key, value)
MapSet(m, k, v) == [x \in DOMAIN m \cup {k} |-> IF x = k THEN v ELSE m[x]]
\* Map.delete(key)
MapDelete(m, k) == [x \in DOMAIN m \ {k} |-> m[x]]
\* Map.get(key)
MapGet(m, k) == IF k \in DOMAIN m THEN m[k] ELSE undefined
EmptyMap == [x \in {} |-> undefined]

\* ------------------------------------------------------------------ strings
IsSpace(c) == c = " "
LowerChar(c) == CASE c = "A" -> "a" [] c = "B" -> "b" [] OTHER -> c
\* String.prototype.toLowerCase
toLowerCase(s) == [i \in 1..Len(s) |-> LowerChar(s[i])]

RECURSIVE trimStart(_)
trimStart(s) == IF s /= <<>> /\ IsSpace(Head(s)) THEN trimStart(Tail(s)) ELSE s
RECURSIVE trimEnd(_)
trimEnd(s) ==
  IF s /= <<>> /\ IsSpace(s[Len(s)]) THEN trimEnd(SubSeq(s, 1, Len(s) - 1)) ELSE s
\* String.prototype.trim
trim(s) == trimEnd(trimStart(s))

\* ------------------------------------------------- InMemoryStorage: users
getUserById(id) == MapGet(users, id)

getUserByEmail(email) ==
  IF toLowerCase(email) \in DOMAIN usersByEmail
  THEN MapGet(users, usersByEmail[toLowerCase(email)])
  ELSE undefined

getUserByUsername(username) ==
  IF toLowerCase(username) \in DOMAIN usersByUsername
  THEN MapGet(users, usersByUsername[toLowerCase(username)])
  ELSE undefined

\* createUser(user): the three maps after the call
createUser(user) ==
  /\ users' = MapSet(users, user.id, user)
  /\ usersByEmail' = MapSet(usersByEmail, toLowerCase(user.email), user.id)
  /\ usersByUsername' = MapSet(usersByUsername, toLowerCase(user.username), user.id)

\* -------------------------------------- InMemoryStorage: friend requests
getFriendRequestById(id) == MapGet(friendRequests, id)

\* the lookup as it would be over the requests of every status
getFriendRequestBetweenUsers_anyStatus(fromUserId, toUserId) ==
  LET hits == {id \in DOMAIN friendRequests :
                 /\ friendRequests[id].fromUserId = fromUserId
                 /\ friendRequests[id].toUserId = toUserId}
  IN  IF hits = {} THEN undefined
      ELSE friendRequests[CHOOSE id \in hits : \A o \in hits : id <= o]

\* Array.from(values()).find(...): only whether a match exists is used
getFriendRequestBetweenUsers(fromUserId, toUserId) ==
  LET hits == {id \in DOMAIN friendRequests :
                 /\ friendRequests[id].fromUserId = fromUserId
                 /\ friendRequests[id].toUserId = toUserId
                 /\ friendRequests[id].status = "pending"}
  IN  IF hits = {} THEN undefined
      ELSE friendRequests[CHOOSE id \in hits : \A o \in hits : id <= o]

\* ------------------------------------------ InMemoryStorage: friendships
areFriends(userId1, userId2) ==
  IF userId1 \in DOMAIN friendsByUser THEN userId2 \in friendsByUser[userId1]
  ELSE FALSE

\* createFriendship as it would be with the friendsByUser update left out
createFriendship_noIndex(fs, fb, friendship) ==
  [friendships |-> MapSet(fs, <<friendship.userId, friendship.friendId>>, friendship),
   friendsByUser |-> fb]

\* createFriendship applied to the pair of maps fs (friendships), fb (friendsByUser)
createFriendship(fs, fb, friendship) ==
  LET key == <<friendship.userId, friendship.friendId>>
      fb1 == IF friendship.userId \in DOMAIN fb THEN fb
             ELSE MapSet(fb, friendship.userId, {})
  IN  [friendships |-> MapSet(fs, key, friendship),
       friendsByUser |-> MapSet(fb1, friendship.userId,
                                fb1[friendship.userId] \cup {friendship.friendId})]

\* deleteFriendship as it would be with the friendsByUser update left out
deleteFriendship_keepsIndex(fs, fb, userId, friendId) ==
  [friendships |-> MapDelete(fs, <<userId, friendId>>),
   friendsByUser |-> fb]

\* deleteFriendship applied to the pair of maps
deleteFriendship(fs, fb, userId, friendId) ==
  [friendships |-> MapDelete(fs, <<userId, friendId>>),
   friendsByUser |-> IF userId \in DOMAIN fb
                     THEN MapSet(fb, userId, fb[userId] \ {friendId})
                     ELSE fb]

\* --------------------------------------------- InMemoryStorage: sessions
\* createSession as it would be with one session per user: the sessions the
\* user already has are dropped
createSession_onePerUser(ss, st, su, session) ==
  LET old == {o \in DOMAIN ss : ss[o].userId = session.userId}
      ss1 == [o \in DOMAIN ss \ old |-> ss[o]]
      st1 == [t \in {k \in DOMAIN st : st[k] \notin old} |-> st[t]]
  IN  [sessions |-> MapSet(ss1, session.id, session),
       sessionsByToken |-> MapSet(st1, session.token, session.id),
       sessionsByUser |-> MapSet(su, session.userId, {session.id})]

\* createSession applied to the three session maps
createSession(ss, st, su, session) ==
  LET su1 == IF session.userId \in DOMAIN su THEN su
             ELSE MapSet(su, session.userId, {})
  IN  [sessions |-> MapSet(ss, session.id, session),
       sessionsByToken |-> MapSet(st, session.token, session.id),
       sessionsByUser |-> MapSet(su1, session.userId,
                                 su1[session.userId] \cup {session.id})]

getSessionById(id) == MapGet(sessions, id)

getSessionByToken(token) ==
  IF token \in DOMAIN sessionsByToken
  THEN MapGet(sessions, sessionsByToken[token])
  ELSE undefined

\* deleteSession as it would be with the token index left alone
deleteSession_keepsToken(ss, st, su, id) ==
  IF id \notin DOMAIN ss
  THEN [sessions |-> ss, sessionsByToken |-> st, sessionsByUser |-> su,
        deleted |-> FALSE]
  ELSE [sessions |-> MapDelete(ss, id),
        sessionsByToken |-> st,
        sessionsByUser |-> IF ss[id].userId \in DOMAIN su
                           THEN MapSet(su, ss[id].userId, su[ss[id].userId] \ {id})
                           ELSE su,
        deleted |-> TRUE]

\* deleteSession applied to the three session maps; deleted is its return value
deleteSession(ss, st, su, id) ==
  IF id \notin DOMAIN ss
  THEN [sessions |-> ss, sessionsByToken |-> st, sessionsByUser |-> su,
        deleted |-> FALSE]
  ELSE [sessions |-> MapDelete(ss, id),
        sessionsByToken |-> MapDelete(st, ss[id].token),
        sessionsByUser |-> IF ss[id].userId \in DOMAIN su
                           THEN MapSet(su, ss[id].userId, su[ss[id].userId] \ {id})
                           ELSE su,
        deleted |-> TRUE]

\* ------------------------------------------------- InMemoryStorage: posts
\* the position of the entry with key id in the post map, 0 when absent
postIndex(ps, id) ==
  IF \E i \in 1..Len(ps) : ps[i].id = id
  THEN CHOOSE i \in 1..Len(ps) : ps[i].id = id
  ELSE 0

getPostById(id) ==
  IF postIndex(posts, id) /= 0 THEN posts[postIndex(posts, id)] ELSE undefined

\* Map.set on the post map: an existing key keeps its place, a new key goes last
postsSet(ps, post) ==
  IF postIndex(ps, post.id) /= 0
  THEN [ps EXCEPT ![postIndex(ps, post.id)] = post]
  ELSE Append(ps, post)

\* Map.delete on the post map
postsDelete(ps, id) ==
  LET keep == {i \in 1..Len(ps) : ps[i].id /= id}
      RECURSIVE pick(_)
      pick(i) == IF i > Len(ps) THEN <<>>
                 ELSE IF i \in keep THEN <<ps[i]>> \o pick(i + 1)
                 ELSE pick(i + 1)
  IN  pick(1)

\* storage.createPost(post)
storage_createPost(post) ==
  LET pa == IF post.authorId \in DOMAIN postsByAuthor THEN postsByAuthor
            ELSE MapSet(postsByAuthor, post.authorId, {})
  IN  /\ posts' = postsSet(posts, post)
      /\ postsByAuthor' = MapSet(pa, post.authorId, pa[post.authorId] \cup {post.id})

\* storage.getPostsByAuthor(authorId), as a set: the order is not used
getPostsByAuthor(authorId) ==
  IF authorId \notin DOMAIN postsByAuthor THEN {}
  ELSE {getPostById(id) : id \in postsByAuthor[authorId]} \ {undefined}

\* storage.getAllPosts()
getAllPosts == posts

\* storage.updatePost(post)
storage_updatePost(post) ==
  /\ posts' = postsSet(posts, post)
  /\ UNCHANGED postsByAuthor

\* storage.deletePost as it would be with the author index left alone
storage_deletePost_keepsIndex(id) ==
  LET post == getPostById(id)
  IN  IF post = undefined THEN UNCHANGED <<posts, postsByAuthor>>
      ELSE /\ posts' = postsDelete(posts, id)
           /\ UNCHANGED postsByAuthor

\* storage.deletePost(id)
storage_deletePost(id) ==
  LET post == getPostById(id)
  IN  IF post = undefined THEN UNCHANGED <<posts, postsByAuthor>>
      ELSE /\ posts' = postsDelete(posts, id)
           /\ postsByAuthor' =
                IF post.authorId \in DOMAIN postsByAuthor
                THEN MapSet(postsByAuthor, post.authorId,
                            postsByAuthor[post.authorId] \ {id})
                ELSE postsByAuthor

\* ---------------------------------------------------------------- constants
SUPPORTED_IMAGE_FORMATS == {"image/jpeg", "image/png", "image/gif"}
SUPPORTED_VIDEO_FORMATS == {"video/mp4", "video/webm"}
MAX_IMAGE_SIZE == 10 * 1024 * 1024
MAX_VIDEO_SIZE == 100 * 1024 * 1024
DEFAULT_VISIBILITY == "friends_only"

\* ------------------------------------------------------------- PostService
\* A content is a record holding the fields that are present.  Has(c, f): the
\* field is present; Truthy(c, f): a string field is present and not empty.
\* The text of a text content is a sequence of characters, the other strings
\* are opaque.
Has(c, f) == f \in DOMAIN c
Truthy(c, f) == Has(c, f) /\ c[f] /= ""

validateImageContent(content) ==
  IF ~Truthy(content, "mediaUrl") /\ ~Truthy(content, "mimeType")
  THEN <<"Image content cannot be empty">>
  ELSE (IF Truthy(content, "mimeType") /\ content.mimeType \notin SUPPORTED_IMAGE_FORMATS
        THEN <<"Unsupported image format. Supported formats: JPEG, PNG, GIF">>
        ELSE <<>>)
       \o
       (IF Has(content, "fileSize") /\ content.fileSize > MAX_IMAGE_SIZE
        THEN <<"Image file exceeds maximum size of 10MB">>
        ELSE <<>>)

validateVideoContent(content) ==
  IF ~Truthy(content, "mediaUrl") /\ ~Truthy(content, "mimeType")
  THEN <<"Video content cannot be empty">>
  ELSE (IF Truthy(content, "mimeType") /\ content.mimeType \notin SUPPORTED_VIDEO_FORMATS
        THEN <<"Unsupported video format. Supported formats: MP4, WebM">>
        ELSE <<>>)
       \o
       (IF Has(content, "fileSize") /\ content.fileSize > MAX_VIDEO_SIZE
        THEN <<"Video file exceeds maximum size of 100MB">>
        ELSE <<>>)

\* validateContent(content): the list of error messages; valid iff it is empty
validateContent(content) ==
  IF content = undefined THEN <<"Content cannot be empty">>
  ELSE IF content.type = "text"
       THEN IF ~Has(content, "text") \/ content.text = <<>>
               \/ Len(trim(content.text)) = 0
            THEN <<"Text content cannot be empty">>
            ELSE <<>>
  ELSE IF content.type = "image" THEN validateImageContent(content)
  ELSE IF content.type = "video" THEN validateVideoContent(content)
  ELSE <<"Invalid content type">>

\* message.includes(needle), for the messages validateContent produces
MessageIncludes(message, needle) ==
  CASE needle = "cannot be empty" ->
         message \in {"Content cannot be empty", "Text content cannot be empty",
                      "Image content cannot be empty", "Video content cannot be empty"}
    [] needle = "Unsupported" ->
         message \in {"Unsupported image format. Supported formats: JPEG, PNG, GIF",
                      "Unsupported video format. Supported formats: MP4, WebM"}
    [] needle = "exceeds maximum size" ->
         message \in {"Image file exceeds maximum size of 10MB",
                      "Video file exceeds maximum size of 100MB"}
    [] OTHER -> FALSE

\* errors.join('; ').includes(needle): no needle holds a ';', so a match lies
\* inside one message
JoinedIncludes(errors, needle) ==
  \E i \in 1..Len(errors) : MessageIncludes(errors[i], needle)

\* the error kind as it would be with the size looked at before the format
validationErrorKind_sizeFirst(errors) ==
  IF JoinedIncludes(errors, "cannot be empty") THEN "EmptyContent"
  ELSE IF JoinedIncludes(errors, "exceeds maximum size") THEN "FileTooLarge"
  ELSE IF JoinedIncludes(errors, "Unsupported") THEN "InvalidFormat"
  ELSE "EmptyContent"

\* the error kind createPost and updatePost raise for a failed validation
validationErrorKind(errors) ==
  IF JoinedIncludes(errors, "cannot be empty") THEN "EmptyContent"
  ELSE IF JoinedIncludes(errors, "Unsupported") THEN "InvalidFormat"
  ELSE IF JoinedIncludes(errors, "exceeds maximum size") THEN "FileTooLarge"
  ELSE "EmptyContent"

\* canViewPost as it would be with the owner rule left out
canViewPost_noOwnerRule(post, viewerId) ==
  IF post.visibility = "public" THEN TRUE
  ELSE IF viewerId = NoUser THEN FALSE
  ELSE areFriends(post.authorId, viewerId)

\* canViewPost as it would be with the friends rule left out
canViewPost_noFriendRule(post, viewerId) ==
  IF post.visibility = "public" THEN TRUE
  ELSE IF viewerId = NoUser THEN FALSE
  ELSE post.authorId = viewerId

canViewPost(post, viewerId) ==
  IF post.visibility = "public" THEN TRUE
  ELSE IF viewerId = NoUser THEN FALSE
  ELSE IF post.authorId = viewerId THEN TRUE
  ELSE areFriends(post.authorId, viewerId)

\* `post_${Date.now()}_${random}`
generatePostId(random) == <<now, random>>

createPostError(userId, content) ==
  IF userId = NoUser THEN "Unauthorized"
  ELSE IF validateContent(content) /= <<>>
       THEN validationErrorKind(validateContent(content))
  ELSE "none"

\* createPost as it would be without the default for a missing visibility
createPost_noDefault(userId, content, visibility, random) ==
  LET err == createPostError(userId, content)
      post == [id |-> generatePostId(random),
               authorId |-> userId,
               content |-> content,
               visibility |-> visibility,
               createdAt |-> now,
               updatedAt |-> now,
               isEdited |-> FALSE]
  IN  /\ IF err /= "none"
         THEN /\ UNCHANGED <<posts, postsByAuthor>>
              /\ result' = [op |-> "createPost", userId |-> userId,
                            content |-> content, visibility |-> visibility,
                            err |-> err]
         ELSE /\ Len(posts) < MaxPosts \/ postIndex(posts, post.id) /= 0
              /\ storage_createPost(post)
              /\ result' = [op |-> "createPost", userId |-> userId,
                            content |-> content, visibility |-> visibility,
                            err |-> "none", post |-> post]
      /\ UNCHANGED <<userVars, friendVars, sessionVars, issued, pageVars, now>>

createPost(userId, content, visibility, random) ==
  LET err == createPostError(userId, content)
      post == [id |-> generatePostId(random),
               authorId |-> userId,
               content |-> content,
               visibility |-> IF visibility = NoVisibility THEN DEFAULT_VISIBILITY
                              ELSE visibility,
               createdAt |-> now,
               updatedAt |-> now,
               isEdited |-> FALSE]
  IN  /\ IF err /= "none"
         THEN /\ UNCHANGED <<posts, postsByAuthor>>
              /\ result' = [op |-> "createPost", userId |-> userId,
                            content |-> content, visibility |-> visibility,
                            err |-> err]
         ELSE /\ Len(posts) < MaxPosts \/ postIndex(posts, post.id) /= 0
              /\ storage_createPost(post)
              /\ result' = [op |-> "createPost", userId |-> userId,
                            content |-> content, visibility |-> visibility,
                            err |-> "none", post |-> post]
      /\ UNCHANGED <<userVars, friendVars, sessionVars, issued, pageVars, now>>

\* Array.prototype.slice(start, end)
slice(s, start, end) ==
  LET len == Len(s)
      k == IF start < 0 THEN (IF len + start > 0 THEN len + start ELSE 0)
           ELSE (IF start < len THEN start ELSE len)
      final == IF end < 0 THEN (IF len + end > 0 THEN len + end ELSE 0)
               ELSE (IF end < len THEN end ELSE len)
  IN  IF final > k THEN SubSeq(s, k + 1, final) ELSE <<>>

\* Array.prototype.filter with canViewPost
RECURSIVE filterVisible(_, _)
filterVisible(ps, viewerId) ==
  IF ps = <<>> THEN <<>>
  ELSE (IF canViewPost(Head(ps), viewerId) THEN <<Head(ps)>> ELSE <<>>)
       \o filterVisible(Tail(ps), viewerId)

\* Array.prototype.sort with (a, b) => b.createdAt - a.createdAt: stable, so a
\* post goes after every post that is not older than it
RECURSIVE insertByCreatedAt(_, _)
insertByCreatedAt(sorted, post) ==
  IF sorted = <<>> THEN <<post>>
  ELSE IF Head(sorted).createdAt >= post.createdAt
       THEN <<Head(sorted)>> \o insertByCreatedAt(Tail(sorted), post)
       ELSE <<post>> \o sorted
RECURSIVE sortByCreatedAtDesc(_)
sortByCreatedAtDesc(ps) ==
  IF ps = <<>> THEN <<>>
  ELSE insertByCreatedAt(sortByCreatedAtDesc(SubSeq(ps, 1, Len(ps) - 1)), ps[Len(ps)])

\* getFeed as it would be with the visibility filter left out
getFeed_unfiltered(userId, limit, offset) ==
  LET sortedPosts == sortByCreatedAtDesc(getAllPosts)
      total == Len(sortedPosts)
      paginatedPosts == slice(sortedPosts, offset, offset + limit)
      hasMore == offset + Len(paginatedPosts) < total
  IN  [posts |-> paginatedPosts, hasMore |-> hasMore, total |-> total]

\* getFeed as it would be with the total taken after the pagination
getFeed_totalOfPage(userId, limit, offset) ==
  LET sortedPosts == sortByCreatedAtDesc(filterVisible(getAllPosts, userId))
      paginatedPosts == slice(sortedPosts, offset, offset + limit)
      total == Len(paginatedPosts)
      hasMore == offset + Len(paginatedPosts) < total
  IN  [posts |-> paginatedPosts, hasMore |-> hasMore, total |-> total]

\* getFeed as it would be with hasMore taken from a full page
getFeed_hasMoreFullPage(userId, limit, offset) ==
  LET sortedPosts == sortByCreatedAtDesc(filterVisible(getAllPosts, userId))
      total == Len(sortedPosts)
      paginatedPosts == slice(sortedPosts, offset, offset + limit)
      hasMore == Len(paginatedPosts) = limit
  IN  [posts |-> paginatedPosts, hasMore |-> hasMore, total |-> total]

\* getFeed as it would be with a limit of 0 replaced by the default limit
getFeed_defaultLimit(userId, limit, offset) ==
  LET sortedPosts == sortByCreatedAtDesc(filterVisible(getAllPosts, userId))
      total == Len(sortedPosts)
      paginatedPosts == slice(sortedPosts, offset,
                              offset + (IF limit = 0 THEN 20 ELSE limit))
      hasMore == offset + Len(paginatedPosts) < total
  IN  [posts |-> paginatedPosts, hasMore |-> hasMore, total |-> total]

\* getFeed as it would be with the sort left out
getFeed_unsorted(userId, limit, offset) ==
  LET sortedPosts == filterVisible(getAllPosts, userId)
      total == Len(sortedPosts)
      paginatedPosts == slice(sortedPosts, offset, offset + limit)
      hasMore == offset + Len(paginatedPosts) < total
  IN  [posts |-> paginatedPosts, hasMore |-> hasMore, total |-> total]

\* getFeed(userId, {limit, offset}): the FeedResult
getFeed(userId, limit, offset) ==
  LET allPosts == getAllPosts
      visiblePosts == filterVisible(allPosts, userId)
      sortedPosts == sortByCreatedAtDesc(visiblePosts)
      total == Len(sortedPosts)
      paginatedPosts == slice(sortedPosts, offset, offset + limit)
      hasMore == offset + Len(paginatedPosts) < total
  IN  [posts |-> paginatedPosts, hasMore |-> hasMore, total |-> total]

\* getPost as it would be if a refused requester were answered with null
getPostResult_nullOnDenied(postId, requesterId) ==
  LET post == getPostById(postId)
  IN  IF post = undefined \/ ~canViewPost(post, requesterId)
      THEN [err |-> "none", post |-> undefined]
      ELSE [err |-> "none", post |-> post]

\* what getPost gives back: err "none" and post undefined is the null return,
\* err "AccessDenied" is the throw
getPostResult(postId, requesterId) ==
  LET post == getPostById(postId)
  IN  IF post = undefined THEN [err |-> "none", post |-> undefined]
      ELSE IF ~canViewPost(post, requesterId)
           THEN [err |-> "AccessDenied", post |-> undefined]
      ELSE [err |-> "none", post |-> post]

\* getPost(postId, requesterId)
getPost(postId, requesterId) ==
  /\ result' = [op |-> "getPost", postId |-> postId, requesterId |-> requesterId,
                err |-> getPostResult(postId, requesterId).err,
                post |-> getPostResult(postId, requesterId).post]
  /\ UNCHANGED <<userVars, friendVars, postVars, sessionVars, issued, pageVars, now>>

\* updatePost's checks as they would be with the content validated before the
\* author check
updatePostError_validateFirst(postId, userId, updates) ==
  LET existingPost == getPostById(postId)
  IN  IF userId = NoUser THEN "Unauthorized"
      ELSE IF existingPost = undefined THEN "PostNotFound"
      ELSE IF "content" \in DOMAIN updates /\ updates.content /= undefined
              /\ validateContent(updates.content) /= <<>>
           THEN validationErrorKind(validateContent(updates.content))
      ELSE IF existingPost.authorId /= userId THEN "AccessDenied"
      ELSE "none"

\* updates is a record holding the fields that are present
updatePostError(postId, userId, updates) ==
  LET existingPost == getPostById(postId)
  IN  IF userId = NoUser THEN "Unauthorized"
      ELSE IF existingPost = undefined THEN "PostNotFound"
      ELSE IF existingPost.authorId /= userId THEN "AccessDenied"
      ELSE IF Has(updates, "content") /\ updates.content /= undefined
              /\ validateContent(updates.content) /= <<>>
           THEN validationErrorKind(validateContent(updates.content))
      ELSE "none"

\* updatePost as it would be if the post were written before the author check
\* threw
updatePost_storesOnDenied(postId, userId, updates) ==
  LET err == updatePostError(postId, userId, updates)
      existingPost == getPostById(postId)
      updatedPost ==
        [existingPost EXCEPT
           !.content = IF Has(updates, "content") /\ updates.content /= undefined
                       THEN updates.content ELSE existingPost.content,
           !.visibility = IF Has(updates, "visibility") THEN updates.visibility
                          ELSE existingPost.visibility,
           !.isEdited = TRUE,
           !.updatedAt = now,
           !.createdAt = existingPost.createdAt]
  IN  /\ IF err = "AccessDenied"
         THEN /\ storage_updatePost(updatedPost)
              /\ result' = [op |-> "updatePost", postId |-> postId,
                            userId |-> userId, updates |-> updates, err |-> err]
         ELSE IF err /= "none"
         THEN /\ UNCHANGED <<posts, postsByAuthor>>
              /\ result' = [op |-> "updatePost", postId |-> postId,
                            userId |-> userId, updates |-> updates, err |-> err]
         ELSE /\ storage_updatePost(updatedPost)
              /\ result' = [op |-> "updatePost", postId |-> postId,
                            userId |-> userId, updates |-> updates, err |-> "none",
                            post |-> updatedPost]
      /\ UNCHANGED <<userVars, friendVars, sessionVars, issued, pageVars, now>>

\* updatePost as it would be with createdAt taken from the clock
updatePost_resetsCreatedAt(postId, userId, updates) ==
  LET err == updatePostError(postId, userId, updates)
      existingPost == getPostById(postId)
      updatedPost ==
        [existingPost EXCEPT
           !.content = IF Has(updates, "content") /\ updates.content /= undefined
                       THEN updates.content ELSE existingPost.content,
           !.visibility = IF Has(updates, "visibility") THEN updates.visibility
                          ELSE existingPost.visibility,
           !.isEdited = TRUE,
           !.updatedAt = now,
           !.createdAt = now]
  IN  /\ IF err /= "none"
         THEN /\ UNCHANGED <<posts, postsByAuthor>>
              /\ result' = [op |-> "updatePost", postId |-> postId,
                            userId |-> userId, updates |-> updates, err |-> err]
         ELSE /\ storage_updatePost(updatedPost)
              /\ result' = [op |-> "updatePost", postId |-> postId,
                            userId |-> userId, updates |-> updates, err |-> "none",
                            post |-> updatedPost]
      /\ UNCHANGED <<userVars, friendVars, sessionVars, issued, pageVars, now>>

updatePost(postId, userId, updates) ==
  LET err == updatePostError(postId, userId, updates)
      existingPost == getPostById(postId)
      updatedPost ==
        [existingPost EXCEPT
           !.content = IF Has(updates, "content") /\ updates.content /= undefined
                       THEN updates.content ELSE existingPost.content,
           !.visibility = IF Has(updates, "visibility") THEN updates.visibility
                          ELSE existingPost.visibility,
           !.isEdited = TRUE,
           !.updatedAt = now,
           !.createdAt = existingPost.createdAt]
  IN  /\ IF err /= "none"
         THEN /\ UNCHANGED <<posts, postsByAuthor>>
              /\ result' = [op |-> "updatePost", postId |-> postId,
                            userId |-> userId, updates |-> updates, err |-> err]
         ELSE /\ storage_updatePost(updatedPost)
              /\ result' = [op |-> "updatePost", postId |-> postId,
                            userId |-> userId, updates |-> updates, err |-> "none",
                            post |-> updatedPost]
      /\ UNCHANGED <<userVars, friendVars, sessionVars, issued, pageVars, now>>

deletePostError(postId, userId) ==
  LET existingPost == getPostById(postId)
  IN  IF userId = NoUser THEN "Unauthorized"
      ELSE IF existingPost = undefined THEN "PostNotFound"
      ELSE IF existingPost.authorId /= userId THEN "AccessDenied"
      ELSE "none"

deletePost(postId, userId) ==
  LET err == deletePostError(postId, userId)
  IN  /\ IF err /= "none"
         THEN UNCHANGED <<posts, postsByAuthor>>
         ELSE storage_deletePost(postId)
      /\ result' = [op |-> "deletePost", postId |-> postId, userId |-> userId,
                    err |-> err]
      /\ UNCHANGED <<userVars, friendVars, sessionVars, issued, pageVars, now>>

\* ------------------------------------------------ AuthenticationService
\* hashPassword: `${salt}:${hash}`, the hash being PBKDF2 of (password, salt);
\* PBKDF2 is taken as injective on the pair
pbkdf2Sync(password, salt) == <<password, salt>>
hashPassword(password, salt) == [salt |-> salt, hash |-> pbkdf2Sync(password, salt)]
verifyPassword(password, storedHash) ==
  storedHash.hash = pbkdf2Sync(password, storedHash.salt)

\* register's checks as they would be without the one for empty inputs
registerError_noEmptyCheck(email, username, password) ==
  IF getUserByEmail(email) /= undefined THEN "DuplicateEmail"
  ELSE IF getUserByUsername(username) /= undefined THEN "DuplicateUsername"
  ELSE "none"

\* the outcome of register's checks, in the order the code makes them; "Error"
\* is the plain Error of line 112, which has no class of its own
registerError(email, username, password) ==
  IF email = <<>> \/ username = <<>> \/ password = <<>> THEN "Error"
  ELSE IF getUserByEmail(email) /= undefined THEN "DuplicateEmail"
  ELSE IF getUserByUsername(username) /= undefined THEN "DuplicateUsername"
  ELSE "none"

register(email, username, password, salt) ==
  LET err == registerError(email, username, password)
      user == [id |-> Cardinality(DOMAIN users) + 1,
               email |-> trim(toLowerCase(email)),
               username |-> trim(username),
               passwordHash |-> hashPassword(password, salt),
               createdAt |-> now]
  IN  /\ IF err /= "none"
         THEN /\ UNCHANGED <<users, usersByEmail, usersByUsername>>
              /\ result' = [op |-> "register", email |-> email,
                            username |-> username, password |-> password,
                            err |-> err]
         ELSE /\ Cardinality(DOMAIN users) < MaxUsers
              /\ createUser(user)
              /\ result' = [op |-> "register", email |-> email,
                            username |-> username, password |-> password,
                            err |-> "none", user |-> user]
      /\ UNCHANGED <<friendVars, postVars, sessionVars, issued, pageVars, now>>

\* the errors of the credential manager: name, code, message, status
InvalidCredentialsError ==
  [name |-> "InvalidCredentialsError", code |-> "INVALID_CREDENTIALS",
   message |-> "Invalid email or password", statusCode |-> 401]
InvalidSessionError ==
  [name |-> "InvalidSessionError", code |-> "INVALID_SESSION",
   message |-> "Invalid session token", statusCode |-> 401]

SESSION_DURATION_MS == 24 * 60 * 60 * 1000

\* crypto.randomBytes(32) as hex: the n-th token handed out; 256 random bits
\* are taken as never repeating, like the ids of uuidv4
generateSessionToken(n) == <<n>>

\* the checks of login as they would be with an error of its own for an
\* address that belongs to no user
loginError_namesMissingUser(email, password) ==
  LET user == getUserByEmail(email)
  IN  IF user = undefined THEN "UserNotFound"
      ELSE IF ~verifyPassword(password, user.passwordHash) THEN "InvalidCredentials"
      ELSE "none"

\* the outcome of login's checks, in the order the code makes them
loginError(email, password) ==
  LET user == getUserByEmail(email)
  IN  IF user = undefined THEN "InvalidCredentials"
      ELSE IF ~verifyPassword(password, user.passwordHash) THEN "InvalidCredentials"
      ELSE "none"

login(email, password) ==
  LET err == loginError(email, password)
      user == getUserByEmail(email)
      session == [id |-> issued + 1,
                  userId |-> user.id,
                  token |-> generateSessionToken(issued + 1),
                  expiresAt |-> now + SESSION_DURATION_MS]
      s1 == createSession(sessions, sessionsByToken, sessionsByUser, session)
  IN  /\ IF err /= "none"
         THEN /\ UNCHANGED <<sessionVars, issued>>
              /\ result' = [op |-> "login", email |-> email, password |-> password,
                            err |-> err, error |-> InvalidCredentialsError]
         ELSE /\ issued < MaxSessions
              /\ sessions' = s1.sessions
              /\ sessionsByToken' = s1.sessionsByToken
              /\ sessionsByUser' = s1.sessionsByUser
              /\ issued' = issued + 1
              /\ result' = [op |-> "login", email |-> email, password |-> password,
                            err |-> "none", session |-> session]
      /\ UNCHANGED <<userVars, friendVars, postVars, now, pageVars>>

logout(sessionId) ==
  LET s1 == deleteSession(sessions, sessionsByToken, sessionsByUser, sessionId)
  IN  /\ sessions' = s1.sessions
      /\ sessionsByToken' = s1.sessionsByToken
      /\ sessionsByUser' = s1.sessionsByUser
      /\ result' = IF s1.deleted
                   THEN [op |-> "logout", sessionId |-> sessionId, err |-> "none"]
                   ELSE [op |-> "logout", sessionId |-> sessionId,
                         err |-> "InvalidSession", error |-> InvalidSessionError]
      /\ UNCHANGED <<userVars, friendVars, postVars, issued, pageVars, now>>

\* the validation as it would be with the expired session left in the store
validateFound_noCleanup(session) ==
  [sessions |-> sessions, sessionsByToken |-> sessionsByToken,
   sessionsByUser |-> sessionsByUser,
   user |-> IF session = undefined \/ now > session.expiresAt THEN undefined
            ELSE getUserById(session.userId)]

\* what validateSession and validateSessionByToken do with the session they
\* looked up: the user field of the outcome is the return value, undefined
\* standing for null
validateFound(session) ==
  IF session = undefined
  THEN [sessions |-> sessions, sessionsByToken |-> sessionsByToken,
        sessionsByUser |-> sessionsByUser, user |-> undefined]
  ELSE IF now > session.expiresAt
  THEN LET s1 == deleteSession(sessions, sessionsByToken, sessionsByUser, session.id)
       IN  [sessions |-> s1.sessions, sessionsByToken |-> s1.sessionsByToken,
            sessionsByUser |-> s1.sessionsByUser, user |-> undefined]
  ELSE [sessions |-> sessions, sessionsByToken |-> sessionsByToken,
        sessionsByUser |-> sessionsByUser, user |-> getUserById(session.userId)]

validateSession(sessionId) ==
  LET out == validateFound(getSessionById(sessionId))
  IN  /\ sessions' = out.sessions
      /\ sessionsByToken' = out.sessionsByToken
      /\ sessionsByUser' = out.sessionsByUser
      /\ result' = [op |-> "validateSession", sessionId |-> sessionId,
                    err |-> "none", user |-> out.user]
      /\ UNCHANGED <<userVars, friendVars, postVars, issued, pageVars, now>>

validateSessionByToken(token) ==
  LET out == validateFound(getSessionByToken(token))
  IN  /\ sessions' = out.sessions
      /\ sessionsByToken' = out.sessionsByToken
      /\ sessionsByUser' = out.sessionsByUser
      /\ result' = [op |-> "validateSessionByToken", token |-> token,
                    err |-> "none", user |-> out.user]
      /\ UNCHANGED <<userVars, friendVars, postVars, issued, pageVars, now>>

\* ----------------------------------------------------------- FriendService
\* sendFriendRequest's checks with the reverse-direction lookup left out
sendFriendRequestError_noReverseCheck(fromUserId, toUserId) ==
  IF fromUserId = toUserId THEN "SelfFriendRequest"
  ELSE IF getUserById(fromUserId) = undefined THEN "UserNotFound"
  ELSE IF getUserById(toUserId) = undefined THEN "UserNotFound"
  ELSE IF areFriends(fromUserId, toUserId) THEN "DuplicateFriendRequest"
  ELSE IF getFriendRequestBetweenUsers(fromUserId, toUserId) /= undefined
       THEN "DuplicateFriendRequest"
  ELSE "none"

\* sendFriendRequest's checks with both lookups of a pending request left out
sendFriendRequestError_noPendingCheck(fromUserId, toUserId) ==
  IF fromUserId = toUserId THEN "SelfFriendRequest"
  ELSE IF getUserById(fromUserId) = undefined THEN "UserNotFound"
  ELSE IF getUserById(toUserId) = undefined THEN "UserNotFound"
  ELSE IF areFriends(fromUserId, toUserId) THEN "DuplicateFriendRequest"
  ELSE "none"

\* sendFriendRequest's checks with the check for a friendship left out
sendFriendRequestError_noFriendsCheck(fromUserId, toUserId) ==
  IF fromUserId = toUserId THEN "SelfFriendRequest"
  ELSE IF getUserById(fromUserId) = undefined THEN "UserNotFound"
  ELSE IF getUserById(toUserId) = undefined THEN "UserNotFound"
  ELSE IF getFriendRequestBetweenUsers(fromUserId, toUserId) /= undefined
       THEN "DuplicateFriendRequest"
  ELSE IF getFriendRequestBetweenUsers(toUserId, fromUserId) /= undefined
       THEN "DuplicateFriendRequest"
  ELSE "none"

\* the outcome of sendFriendRequest's checks, in the order the code makes them
sendFriendRequestError(fromUserId, toUserId) ==
  IF fromUserId = toUserId THEN "SelfFriendRequest"
  ELSE IF getUserById(fromUserId) = undefined THEN "UserNotFound"
  ELSE IF getUserById(toUserId) = undefined THEN "UserNotFound"
  ELSE IF areFriends(fromUserId, toUserId) THEN "DuplicateFriendRequest"
  ELSE IF getFriendRequestBetweenUsers(fromUserId, toUserId) /= undefined
       THEN "DuplicateFriendRequest"
  ELSE IF getFriendRequestBetweenUsers(toUserId, fromUserId) /= undefined
       THEN "DuplicateFriendRequest"
  ELSE "none"

sendFriendRequest(fromUserId, toUserId) ==
  LET err == sendFriendRequestError(fromUserId, toUserId)
      friendRequest == [id |-> Cardinality(DOMAIN friendRequests) + 1,
                        fromUserId |-> fromUserId,
                        toUserId |-> toUserId,
                        status |-> "pending",
                        createdAt |-> now]
  IN  /\ IF err /= "none"
         THEN /\ UNCHANGED friendRequests
              /\ result' = [op |-> "sendFriendRequest", fromUserId |-> fromUserId,
                            toUserId |-> toUserId, err |-> err]
         ELSE /\ Cardinality(DOMAIN friendRequests) < MaxRequests
              /\ friendRequests' = MapSet(friendRequests, friendRequest.id, friendRequest)
              /\ result' = [op |-> "sendFriendRequest", fromUserId |-> fromUserId,
                            toUserId |-> toUserId, err |-> "none",
                            request |-> friendRequest]
      /\ UNCHANGED <<userVars, friendships, friendsByUser, postVars, sessionVars, issued, pageVars, now>>

\* acceptFriendRequest's checks with the pending check left out
acceptFriendRequestError_noPendingCheck(requestId, userId) ==
  LET request == getFriendRequestById(requestId)
  IN  IF request = undefined THEN "FriendRequestNotFound"
      ELSE IF request.toUserId /= userId THEN "Forbidden"
      ELSE "none"

\* declineFriendRequest's checks with the pending check left out
declineFriendRequestError_noPendingCheck(requestId, userId) ==
  LET request == getFriendRequestById(requestId)
  IN  IF request = undefined THEN "FriendRequestNotFound"
      ELSE IF request.toUserId /= userId THEN "Forbidden"
      ELSE "none"

\* acceptFriendRequest's checks with the recipient check left out
acceptFriendRequestError_noRecipientCheck(requestId, userId) ==
  LET request == getFriendRequestById(requestId)
  IN  IF request = undefined THEN "FriendRequestNotFound"
      ELSE IF request.status /= "pending" THEN "FriendRequestNotFound"
      ELSE "none"

\* the checks shared, line for line, by acceptFriendRequest and declineFriendRequest
acceptFriendRequestError(requestId, userId) ==
  LET request == getFriendRequestById(requestId)
  IN  IF request = undefined THEN "FriendRequestNotFound"
      ELSE IF request.toUserId /= userId THEN "Forbidden"
      ELSE IF request.status /= "pending" THEN "FriendRequestNotFound"
      ELSE "none"

declineFriendRequestError(requestId, userId) ==
  LET request == getFriendRequestById(requestId)
  IN  IF request = undefined THEN "FriendRequestNotFound"
      ELSE IF request.toUserId /= userId THEN "Forbidden"
      ELSE IF request.status /= "pending" THEN "FriendRequestNotFound"
      ELSE "none"

\* acceptFriendRequest as it would be with the status written before the
\* recipient check threw
acceptFriendRequest_marksThenChecks(requestId, userId) ==
  LET err == acceptFriendRequestError(requestId, userId)
      request == getFriendRequestById(requestId)
      friendship1 == [userId |-> request.fromUserId, friendId |-> request.toUserId,
                      createdAt |-> now]
      friendship2 == [userId |-> request.toUserId, friendId |-> request.fromUserId,
                      createdAt |-> now]
      s1 == createFriendship(friendships, friendsByUser, friendship1)
      s2 == createFriendship(s1.friendships, s1.friendsByUser, friendship2)
  IN  /\ IF err = "Forbidden" /\ request.status = "pending"
         THEN /\ friendRequests' =
                   MapSet(friendRequests, requestId, [request EXCEPT !.status = "accepted"])
              /\ UNCHANGED <<friendships, friendsByUser>>
         ELSE IF err /= "none"
         THEN UNCHANGED <<friendRequests, friendships, friendsByUser>>
         ELSE /\ friendRequests' =
                   MapSet(friendRequests, requestId, [request EXCEPT !.status = "accepted"])
              /\ friendships' = s2.friendships
              /\ friendsByUser' = s2.friendsByUser
      /\ result' = [op |-> "acceptFriendRequest", requestId |-> requestId,
                    userId |-> userId, err |-> err]
      /\ UNCHANGED <<userVars, postVars, sessionVars, issued, pageVars, now>>

acceptFriendRequest(requestId, userId) ==
  LET err == acceptFriendRequestError(requestId, userId)
      request == getFriendRequestById(requestId)
      friendship1 == [userId |-> request.fromUserId, friendId |-> request.toUserId,
                      createdAt |-> now]
      friendship2 == [userId |-> request.toUserId, friendId |-> request.fromUserId,
                      createdAt |-> now]
      s1 == createFriendship(friendships, friendsByUser, friendship1)
      s2 == createFriendship(s1.friendships, s1.friendsByUser, friendship2)
  IN  /\ IF err /= "none"
         THEN UNCHANGED <<friendRequests, friendships, friendsByUser>>
         ELSE /\ friendRequests' =
                   MapSet(friendRequests, requestId, [request EXCEPT !.status = "accepted"])
              /\ friendships' = s2.friendships
              /\ friendsByUser' = s2.friendsByUser
      /\ result' = [op |-> "acceptFriendRequest", requestId |-> requestId,
                    userId |-> userId, err |-> err]
      /\ UNCHANGED <<userVars, postVars, sessionVars, issued, pageVars, now>>

\* declineFriendRequest as it would be with accept's friendship creation copied in
declineFriendRequest_createsEdges(requestId, userId) ==
  LET err == declineFriendRequestError(requestId, userId)
      request == getFriendRequestById(requestId)
      friendship1 == [userId |-> request.fromUserId, friendId |-> request.toUserId,
                      createdAt |-> now]
      friendship2 == [userId |-> request.toUserId, friendId |-> request.fromUserId,
                      createdAt |-> now]
      s1 == createFriendship(friendships, friendsByUser, friendship1)
      s2 == createFriendship(s1.friendships, s1.friendsByUser, friendship2)
  IN  /\ IF err /= "none"
         THEN UNCHANGED <<friendRequests, friendships, friendsByUser>>
         ELSE /\ friendRequests' =
                   MapSet(friendRequests, requestId, [request EXCEPT !.status = "declined"])
              /\ friendships' = s2.friendships
              /\ friendsByUser' = s2.friendsByUser
      /\ result' = [op |-> "declineFriendRequest", requestId |-> requestId,
                    userId |-> userId, err |-> err]
      /\ UNCHANGED <<userVars, postVars, sessionVars, issued, pageVars, now>>

declineFriendRequest(requestId, userId) ==
  LET err == declineFriendRequestError(requestId, userId)
      request == getFriendRequestById(requestId)
  IN  /\ IF err /= "none"
         THEN UNCHANGED friendRequests
         ELSE friendRequests' =
                MapSet(friendRequests, requestId, [request EXCEPT !.status = "declined"])
      /\ result' = [op |-> "declineFriendRequest", requestId |-> requestId,
                    userId |-> userId, err |-> err]
      /\ UNCHANGED <<userVars, friendships, friendsByUser, postVars, sessionVars, issued, pageVars, now>>

\* removeFriend as it would be with the second deleteFriendship forgotten
removeFriend_oneDirection(userId, friendId) ==
  LET s1 == deleteFriendship(friendships, friendsByUser, userId, friendId)
  IN  /\ IF ~areFriends(userId, friendId)
         THEN /\ UNCHANGED <<friendships, friendsByUser>>
              /\ result' = [op |-> "removeFriend", userId |-> userId,
                            friendId |-> friendId, err |-> "NotFriends"]
         ELSE /\ friendships' = s1.friendships
              /\ friendsByUser' = s1.friendsByUser
              /\ result' = [op |-> "removeFriend", userId |-> userId,
                            friendId |-> friendId, err |-> "none"]
      /\ UNCHANGED <<userVars, friendRequests, postVars, sessionVars, issued, pageVars, now>>

\* removeFriend as it would be with the areFriends check left out
removeFriend_noCheck(userId, friendId) ==
  LET s1 == deleteFriendship(friendships, friendsByUser, userId, friendId)
      s2 == deleteFriendship(s1.friendships, s1.friendsByUser, friendId, userId)
  IN  /\ friendships' = s2.friendships
      /\ friendsByUser' = s2.friendsByUser
      /\ result' = [op |-> "removeFriend", userId |-> userId,
                    friendId |-> friendId, err |-> "none"]
      /\ UNCHANGED <<userVars, friendRequests, postVars, sessionVars, issued, pageVars, now>>

removeFriend(userId, friendId) ==
  LET s1 == deleteFriendship(friendships, friendsByUser, userId, friendId)
      s2 == deleteFriendship(s1.friendships, s1.friendsByUser, friendId, userId)
  IN  /\ IF ~areFriends(userId, friendId)
         THEN /\ UNCHANGED <<friendships, friendsByUser>>
              /\ result' = [op |-> "removeFriend", userId |-> userId,
                            friendId |-> friendId, err |-> "NotFriends"]
         ELSE /\ friendships' = s2.friendships
              /\ friendsByUser' = s2.friendsByUser
              /\ result' = [op |-> "removeFriend", userId |-> userId,
                            friendId |-> friendId, err |-> "none"]
      /\ UNCHANGED <<userVars, friendRequests, postVars, sessionVars, issued, pageVars, now>>

\* ------------------------------------------------- SerializationService
\* A Date is its epoch millisecond.  toISOString writes the day (the calendar
\* date, kept as the number of the day), the hour, the minute, the second and
\* the millisecond; new Date(string) reads them back.
MS_PER_DAY == 24 * 60 * 60 * 1000
toISOString(t) ==
  [day |-> t \div MS_PER_DAY,
   hour |-> (t % MS_PER_DAY) \div 3600000,
   minute |-> (t % 3600000) \div 60000,
   second |-> (t % 60000) \div 1000,
   ms |-> t % 1000]
newDate(iso) ==
  iso.day * MS_PER_DAY + iso.hour * 3600000 + iso.minute * 60000
    + iso.second * 1000 + iso.ms

\* JSON.stringify(object): the members in the order of the keys, those the
\* object has; JSON.parse gives, for each key, the place of its member
JSONstringify(object, keys) ==
  LET present == SelectSeq(keys, LAMBDA k : k \in DOMAIN object)
  IN  [i \in 1..Len(present) |-> [key |-> present[i], value |-> object[present[i]]]]
JSONparse(json) ==
  [k \in {json[i].key : i \in 1..Len(json)} |->
     (CHOOSE i \in 1..Len(json) : json[i].key = k)]
PostKeys ==
  <<"id", "authorId", "content", "visibility", "createdAt", "updatedAt", "isEdited">>
ContentKeys == <<"type", "text", "mediaUrl">>

\* the object literal { type, ...(text !== undefined && { text }),
\* ...(mediaUrl !== undefined && { mediaUrl }) }
copyContent(content) ==
  [f \in DOMAIN content \cap {"type", "text", "mediaUrl"} |-> content[f]]

serializePost(post) ==
  LET serialized == [id |-> post.id,
                     authorId |-> post.authorId,
                     content |-> JSONstringify(copyContent(post.content), ContentKeys),
                     visibility |-> post.visibility,
                     createdAt |-> toISOString(post.createdAt),
                     updatedAt |-> toISOString(post.updatedAt),
                     isEdited |-> post.isEdited]
  IN  JSONstringify(serialized, PostKeys)

isValidContentType(type) == type \in {"text", "image", "video"}
isValidVisibility(visibility) == visibility \in {"friends_only", "public"}

\* deserializePost(json): err is the message of the Error thrown, "none"
\* when a post is returned
deserializePost(json) ==
  LET parsed == JSONparse(json)
      value(k) == json[parsed[k]].value
      content == JSONparse(value("content"))
      contentValue(k) == value("content")[content[k]].value
  IN  IF ~Has(parsed, "id") THEN [err |-> "Invalid post: missing or invalid id"]
      ELSE IF ~Has(parsed, "authorId") \/ value("authorId") = NoUser
           THEN [err |-> "Invalid post: missing or invalid authorId"]
      ELSE IF ~Has(parsed, "content")
           THEN [err |-> "Invalid post: missing or invalid content"]
      ELSE IF ~Has(content, "type") \/ ~isValidContentType(contentValue("type"))
           THEN [err |-> "Invalid post: invalid content type"]
      ELSE IF ~Has(parsed, "visibility") \/ ~isValidVisibility(value("visibility"))
           THEN [err |-> "Invalid post: invalid visibility"]
      ELSE IF ~Has(parsed, "createdAt")
           THEN [err |-> "Invalid post: missing or invalid createdAt"]
      ELSE IF ~Has(parsed, "updatedAt")
           THEN [err |-> "Invalid post: missing or invalid updatedAt"]
      ELSE IF ~Has(parsed, "isEdited")
           THEN [err |-> "Invalid post: missing or invalid isEdited"]
      ELSE [err |-> "none",
            post |-> [id |-> value("id"),
                      authorId |-> value("authorId"),
                      content |-> [f \in DOMAIN content \cap {"type", "text", "mediaUrl"}
                                     |-> contentValue(f)],
                      visibility |-> value("visibility"),
                      createdAt |-> newDate(value("createdAt")),
                      updatedAt |-> newDate(value("updatedAt")),
                      isEdited |-> value("isEdited")]]

\* ------------------------------------------------------- public/app.js
\* the page sections of the single-page application; showPage looks one up as
\* document.getElementById(`${pageName}Page`)
PageNames == {"auth", "feed", "create", "friends"}

\* the navigation links, each with the page it names in data-page
NavPages == {"feed", "create", "friends"}

\* the page names showPage is called with: the four pages and a name no
\* element carries
PageArguments == PageNames \cup {"settings"}

\* the class lists a page section can leave the markup with
PageMarkup == {{"page"}, {"page", "hidden"}}

\* an element is displayed unless it carries .hidden (display: none
\* !important); of the pages, only one carrying .active is displayed
Displayed(classList) == "active" \in classList /\ "hidden" \notin classList

\* showPage(pageName), on the document and state it is called in: the document
\* and the state it leaves
showPage(doc, st, pageName) ==
  LET cleared == [p \in DOMAIN doc.pages |-> doc.pages[p] \ {"active"}]
      found == pageName \in DOMAIN doc.pages
      pages == IF found
                 THEN [cleared EXCEPT ![pageName] = @ \cup {"active"}]
                 ELSE cleared
      navLinks == [l \in DOMAIN doc.navLinks |->
                     IF l = pageName
                       THEN (doc.navLinks[l] \ {"active"}) \cup {"active"}
                       ELSE doc.navLinks[l] \ {"active"}]
  IN  [document |-> [pages |-> pages, navLinks |-> navLinks],
       state |-> IF found THEN [st EXCEPT !.currentPage = pageName] ELSE st]

\* ------------------------------------------------------------ the machines
Init ==
  /\ users = EmptyMap
  /\ usersByEmail = EmptyMap
  /\ usersByUsername = EmptyMap
  /\ friendRequests = EmptyMap
  /\ friendships = EmptyMap
  /\ friendsByUser = EmptyMap
  /\ posts = <<>>
  /\ postsByAuthor = EmptyMap
  /\ sessions = EmptyMap
  /\ sessionsByToken = EmptyMap
  /\ sessionsByUser = EmptyMap
  /\ issued = 0
  /\ now = 0
  /\ document = [pages |-> EmptyMap, navLinks |-> EmptyMap]
  /\ state = [currentPage |-> "auth"]
  /\ result = [op |-> "init", err |-> "none"]

\* the ids a caller may present: those the registered users get, and one more
\* that no user ever gets
UserIds == 1..(MaxUsers + 1)
RequestIds == 1..MaxRequests

\* the accounts the friendship machine is driven with: the i-th caller signs up
\* as account i (i letters long), after the callers before it; a repeated
\* sign-up of an account is a duplicate
Account(i) == [email |-> [k \in 1..i |-> "a"], username |-> [k \in 1..i |-> "b"]]

Register ==
  \E i \in 1..MaxUsers :
    /\ i <= Cardinality(DOMAIN users) + 1
    /\ register(Account(i).email, Account(i).username, <<"p">>, 1)
SendFriendRequest == \E f, t \in UserIds : sendFriendRequest(f, t)
AcceptFriendRequest == \E r \in RequestIds, u \in UserIds : acceptFriendRequest(r, u)
DeclineFriendRequest == \E r \in RequestIds, u \in UserIds : declineFriendRequest(r, u)
RemoveFriend == \E u, f \in UserIds : removeFriend(u, f)

Next ==
  \/ Register
  \/ SendFriendRequest
  \/ AcceptFriendRequest
  \/ DeclineFriendRequest
  \/ RemoveFriend

Spec == Init /\ [][Next]_vars

\* ------------------------------------------------------- the feed machine
\* All calls of this machine fall within one millisecond (now = 0), so two
\* posts differ in id only by the random part.
\* who may look: nobody (0) and every user id
Viewers == {NoUser} \cup UserIds
\* the authors of the feed machine: a user who can have a friend, and one who
\* (in this machine) never has any
Authors == {1, MaxUsers + 1}
\* Math.random(): two draws may agree
Randoms == {1, 2}
FeedContents == {[type |-> "text", text |-> <<"h">>]}
FeedVisibilities == {"public", "friends_only", NoVisibility}
PageSizes == 0..MaxPosts
\* the Pagination numbers, as the transport layer hands them over: any integer
\* the query string holds, a negative one and one past the last post included
FeedLimits == -1..MaxPosts
FeedOffsets == -1..(MaxPosts + 1)

CreatePost ==
  \E u \in Authors \cup {NoUser}, c \in FeedContents, v \in FeedVisibilities, r \in Randoms :
    createPost(u, c, v, r)
PostIds == {<<0, r>> : r \in Randoms}
DeletePost == \E id \in PostIds, u \in Authors : deletePost(id, u)
FeedSendFriendRequest == sendFriendRequest(2, 1)
FeedAcceptFriendRequest ==
  \E r \in RequestIds :
    r \in DOMAIN friendRequests /\ acceptFriendRequest(r, friendRequests[r].toUserId)
FeedRemoveFriend == removeFriend(1, 2)

NextFeed ==
  \/ Register
  \/ FeedSendFriendRequest
  \/ FeedAcceptFriendRequest
  \/ FeedRemoveFriend
  \/ CreatePost
  \/ DeletePost

SpecFeed == Init /\ [][NextFeed]_vars

\* ------------------------------------------------------- the post machine
\* Reading single posts while friendships come and go; all calls fall within
\* one millisecond.
\* an id generatePostId never produces
UnknownPostId == <<0, 0>>
\* the ids a caller may present: those of the stored posts, and an unknown one
StoredPostIds == {posts[i].id : i \in 1..Len(posts)} \cup {UnknownPostId}
PostContents == {[type |-> "text", text |-> <<"h">>]}
PostVisibilities == {"public", "friends_only"}

PostCreatePost ==
  \E u \in {1, 2}, c \in PostContents, v \in PostVisibilities, r \in Randoms :
    createPost(u, c, v, r)
GetPost == \E id \in StoredPostIds, u \in Viewers : getPost(id, u)
PostDeletePost == \E id \in StoredPostIds, u \in {NoUser, 1, 2} : deletePost(id, u)

NextPost ==
  \/ Register
  \/ FeedSendFriendRequest
  \/ FeedAcceptFriendRequest
  \/ FeedRemoveFriend
  \/ PostCreatePost
  \/ GetPost
  \/ PostDeletePost

SpecPost == Init /\ [][NextPost]_vars

\* ------------------------------------------------------- the edit machine
\* The clock advances between calls, so an update may carry an updatedAt later
\* than createdAt.  Every draw of Math.random() gives the same value here: the
\* posts of this machine differ in creation time, and a post created in the
\* millisecond of another takes its place (Map.set on an existing key).
Tick == /\ now < MaxTime
        /\ now' = now + 1
        /\ UNCHANGED <<storeVars, issued, pageVars, result>>

\* the PostUpdate objects: nothing, a visibility, a valid content, an empty
\* text, an image of an unsupported format together with a visibility
PostUpdates ==
  {<<>>,
   [visibility |-> "public"],
   [content |-> [type |-> "text", text |-> <<"i">>]],
   [content |-> [type |-> "text", text |-> <<" ">>]],
   [content |-> [type |-> "image", mimeType |-> "image/bmp"], visibility |-> "public"]}

EditRandoms == {1}
EditCreatePost ==
  \E c \in PostContents, r \in EditRandoms : createPost(1, c, NoVisibility, r)
UpdatePost ==
  \E id \in StoredPostIds, u \in {NoUser, 1, 2}, up \in PostUpdates :
    updatePost(id, u, up)

NextEdit ==
  \/ EditCreatePost
  \/ UpdatePost
  \/ Tick

SpecEdit == Init /\ [][NextEdit]_vars

\* ------------------------------------------------------- the clock machine
\* Posts of one author, public and friends_only, created at the same and at
\* different times.  new Date() reads the system time, which may be set back
\* as well as forth, so the posts need not be stored in the order of createdAt.
SetClock == \E t \in 0..MaxTime :
              /\ t /= now
              /\ now' = t
              /\ UNCHANGED <<storeVars, issued, pageVars, result>>
ClockCreatePost ==
  \E c \in PostContents, v \in PostVisibilities, r \in Randoms :
    createPost(1, c, v, r)
ClockDeletePost == \E i \in 1..Len(posts) : deletePost(posts[i].id, posts[i].authorId)

NextClock ==
  \/ ClockCreatePost
  \/ ClockDeletePost
  \/ SetClock

SpecClock == Init /\ [][NextClock]_vars

\* ---------------------------------------------- the revocation machine
\* Two users who send each other requests, become friends and stop being
\* friends, each of them an author and a reader of posts.  Every draw of
\* Math.random() gives the same value here, so a new post takes the place of
\* the one before.
RevokeSendFriendRequest == \E f, t \in {1, 2} : f /= t /\ sendFriendRequest(f, t)
RevokeRemoveFriend == \E u, f \in {1, 2} : u /= f /\ removeFriend(u, f)
RevokeCreatePost ==
  \E u \in {1, 2}, c \in PostContents, v \in PostVisibilities, r \in EditRandoms :
    createPost(u, c, v, r)
RevokeGetPost == \E i \in 1..Len(posts), u \in {1, 2} : getPost(posts[i].id, u)

NextRevoke ==
  \/ Register
  \/ RevokeSendFriendRequest
  \/ FeedAcceptFriendRequest
  \/ RevokeRemoveFriend
  \/ RevokeCreatePost
  \/ RevokeGetPost

SpecRevoke == Init /\ [][NextRevoke]_vars

\* ------------------------------------------------ the creation machine
\* Posts created at different times by two authors and by nobody, with each
\* visibility and with none.
CreateCreatePost ==
  \E u \in {NoUser, 1, 2}, c \in PostContents, v \in FeedVisibilities, r \in EditRandoms :
    createPost(u, c, v, r)

NextCreate ==
  \/ CreateCreatePost
  \/ Tick

SpecCreate == Init /\ [][NextCreate]_vars

\* ------------------------------------------------- the content machine
\* Posts of every kind of content, valid and not, created and edited by their
\* author; all calls fall within one millisecond.
\* the contents a caller may hand over: none; a text, a blank text, a text
\* object without text; an image without anything, with a URL, of a supported
\* format, of an unsupported one, too large, and both; a video of a supported
\* format, of an unsupported one, too large, and both; a content of an
\* unknown type
ContentInputs ==
  {undefined,
   [type |-> "text", text |-> <<"h">>],
   [type |-> "text", text |-> <<" ">>],
   [type |-> "text"],
   [type |-> "image"],
   [type |-> "image", mediaUrl |-> "u"],
   [type |-> "image", mimeType |-> "image/png", fileSize |-> MAX_IMAGE_SIZE],
   [type |-> "image", mimeType |-> "image/bmp"],
   [type |-> "image", mimeType |-> "image/png", fileSize |-> MAX_IMAGE_SIZE + 1],
   [type |-> "image", mimeType |-> "image/bmp", fileSize |-> MAX_IMAGE_SIZE + 1],
   [type |-> "video", mimeType |-> "video/mp4", fileSize |-> MAX_VIDEO_SIZE],
   [type |-> "video", mimeType |-> "video/avi"],
   [type |-> "video", mimeType |-> "video/mp4", fileSize |-> MAX_VIDEO_SIZE + 1],
   [type |-> "video", mimeType |-> "video/avi", fileSize |-> MAX_VIDEO_SIZE + 1],
   [type |-> "audio"]}

ContentCreatePost ==
  \E c \in ContentInputs, r \in Randoms : createPost(1, c, NoVisibility, r)
ContentUpdatePost ==
  \E i \in 1..Len(posts), c \in ContentInputs :
    updatePost(posts[i].id, 1, [content |-> c])

NextContent ==
  \/ ContentCreatePost
  \/ ContentUpdatePost

SpecContent == Init /\ [][NextContent]_vars

\* -------------------------------------------- the serialization machine
\* A post is written as JSON and the JSON is read back.
\* the posts handed to serializePost: what createPost and updatePost store for
\* the contents that pass validation, at instants that differ in each part of
\* the date
SerialTimes == {0, 1, 61001, MS_PER_DAY + 3723004}
SerialContents == {c \in ContentInputs \ {undefined} : validateContent(c) = <<>>}
SerialPosts ==
  [id : {<<0, 1>>}, authorId : {1}, content : SerialContents,
   visibility : {"public", "friends_only"},
   createdAt : SerialTimes, updatedAt : SerialTimes, isEdited : BOOLEAN]

SerializePost ==
  \E post \in SerialPosts :
    /\ post.updatedAt >= post.createdAt
    /\ post.isEdited = (post.updatedAt > post.createdAt)
    /\ result' = [op |-> "serializePost", post |-> post, err |-> "none",
                  json |-> serializePost(post)]
    /\ UNCHANGED <<storeVars, issued, pageVars, now>>
DeserializePost ==
  /\ result.op = "serializePost"
  /\ result' = [op |-> "deserializePost", post |-> result.post, json |-> result.json,
                err |-> deserializePost(result.json).err,
                restored |-> IF deserializePost(result.json).err = "none"
                             THEN deserializePost(result.json).post ELSE undefined]
  /\ UNCHANGED <<storeVars, issued, pageVars, now>>

NextSerial ==
  \/ SerializePost
  \/ DeserializePost

SpecSerial == Init /\ [][NextSerial]_vars

\* ------------------------------------------------- the session machine
\* the instants the clock is read at: the start, and the end of each day of
\* SESSION_DURATION_MS with the millisecond after it, so that a session is
\* seen before, exactly at and after its expiresAt
SessionTimes ==
  {0} \cup {d * SESSION_DURATION_MS + e : d \in 1..MaxTime, e \in {0, 1}}
Elapse == \E t \in SessionTimes :
            /\ t > now
            /\ now' = t
            /\ UNCHANGED <<storeVars, issued, pageVars, result>>

\* the e-mail addresses and passwords a caller may present: those of the
\* accounts (the first in another case too), an address nobody has, a wrong
\* password
LoginEmails == {<<"a">>, <<"A">>, <<"a", "a">>, <<"z">>}
LoginPasswords == {<<"p">>, <<"q">>}
\* the session ids and tokens a caller may present: those handed out so far
\* or later, and one never handed out
SessionIds == 1..(MaxSessions + 1)
SessionTokens == {generateSessionToken(n) : n \in SessionIds}

Login == \E e \in LoginEmails, p \in LoginPasswords : login(e, p)
Logout == \E id \in SessionIds : logout(id)
ValidateSession == \E id \in SessionIds : validateSession(id)
ValidateSessionByToken == \E t \in SessionTokens : validateSessionByToken(t)

NextSession ==
  \/ Register
  \/ Login
  \/ Logout
  \/ ValidateSession
  \/ ValidateSessionByToken
  \/ Elapse

SpecSession == Init /\ [][NextSession]_vars

\* --------------------------------------------------- the login machine
\* Sign-ups and logins with addresses that differ in surrounding blanks only.
\* Each sign-up has a user name of its own, so the stored user of that name is
\* the one this sign-up made.
RegisterCalls ==
  {[email |-> <<"a">>, username |-> <<"a">>, password |-> <<"p">>],
   [email |-> <<"a", " ">>, username |-> <<"b">>, password |-> <<"q">>],
   [email |-> <<"b">>, username |-> <<"c">>, password |-> <<"p">>]}
LoginRegister ==
  \E c \in RegisterCalls : register(c.email, c.username, c.password, 1)
LoginLogin ==
  \E c \in RegisterCalls, p \in LoginPasswords : login(c.email, p)

NextLogin ==
  \/ LoginRegister
  \/ LoginLogin
  \/ Logout

SpecLogin == Init /\ [][NextLogin]_vars

\* ---------------------------------------------------- the page machine
\* the browser parses the markup: every page section and navigation link
\* exists from then on, each page with the classes the markup gives it
LoadDocument == \E markup \in [PageNames -> PageMarkup] :
  /\ document.pages = EmptyMap
  /\ document' = [pages |-> markup, navLinks |-> [l \in NavPages |-> {"nav-link"}]]
  /\ result' = [op |-> "load", err |-> "none"]
  /\ UNCHANGED <<storeVars, issued, now, state>>

\* a call of showPage: on DOMContentLoaded, after login, register and logout,
\* after a post is created, from a navigation link
ShowPage == \E pageName \in PageArguments :
  /\ document.pages # EmptyMap
  /\ document' = showPage(document, state, pageName).document
  /\ state' = showPage(document, state, pageName).state
  /\ result' = [op |-> "showPage", pageName |-> pageName, err |-> "none"]
  /\ UNCHANGED <<storeVars, issued, now>>

NextPage == LoadDocument \/ ShowPage
SpecPage == Init /\ [][NextPage]_vars

\* ------------------------------------------------- the whole machine
\* Every operation of the credential, friendship and post managers, each with
\* inputs that make it succeed and inputs that make it fail.
AllRegister ==
  \/ Register
  \/ register(<<>>, <<"b">>, <<"p">>, 1)
AllLogin == \E p \in LoginPasswords : login(<<"a">>, p)
AllLogout == \E id \in {1, MaxSessions + 1} : logout(id)
AllSendFriendRequest == \E t \in {1, 2} : sendFriendRequest(2, t)
AllAcceptFriendRequest == \E u \in {1, 2} : acceptFriendRequest(1, u)
AllDeclineFriendRequest == \E u \in {1, 2} : declineFriendRequest(1, u)
AllRemoveFriend == removeFriend(1, 2)
AllCreatePost ==
  \E u \in {NoUser, 1}, c \in {[type |-> "text", text |-> <<"h">>], [type |-> "text"]} :
    createPost(u, c, NoVisibility, 1)
AllUpdatePost ==
  \E u \in {1, 2}, up \in {[visibility |-> "public"],
                             [content |-> [type |-> "image", mimeType |-> "image/bmp"]]} :
    updatePost(<<0, 1>>, u, up)
AllDeletePost == \E u \in {1, 2} : deletePost(<<0, 1>>, u)
AllGetPost == getPost(<<0, 1>>, 2)

NextAll ==
  \/ AllRegister
  \/ AllLogin
  \/ AllLogout
  \/ AllSendFriendRequest
  \/ AllAcceptFriendRequest
  \/ AllDeclineFriendRequest
  \/ AllRemoveFriend
  \/ AllCreatePost
  \/ AllUpdatePost
  \/ AllDeletePost
  \/ AllGetPost

SpecAll == Init /\ [][NextAll]_vars

\* ------------------------------------------------- the registration machine
AuthEmails == {<<>>, <<"a">>, <<"A">>, <<"a", " ">>, <<"b">>}
AuthUsernames == {<<>>, <<"a">>, <<"A">>, <<" ", "a">>, <<"b">>}
AuthPasswords == {<<>>, <<"p">>}
Salts == {1, 2}

RegisterAny ==
  \E e \in AuthEmails, u \in AuthUsernames, p \in AuthPasswords, salt \in Salts :
    register(e, u, p, salt)

NextAuth == RegisterAny

SpecAuth == Init /\ [][NextAuth]_vars

\* ================================================================== claims
\* Every call leaves its name, its arguments and its outcome in result, so a
\* step with result'.op = "f" is a call of f with the arguments result' names;
\* the unprimed variables are the store before the call.
\* a pending request fromUserId -> toUserId is stored
PendingFromTo(fromUserId, toUserId) ==
  \E id \in DOMAIN friendRequests :
    /\ friendRequests[id].fromUserId = fromUserId
    /\ friendRequests[id].toUserId = toUserId
    /\ friendRequests[id].status = "pending"

\* the request id names a stored request that is no longer pending
Handled(r) == r \in DOMAIN friendRequests /\ friendRequests[r].status /= "pending"
\* the request id names a stored request that is still pending
Pending(r) == r \in DOMAIN friendRequests /\ friendRequests[r].status = "pending"

\* C1: in every reachable state of the friendship machine, areFriends(a,b)
\* holds if and only if areFriends(b,a) holds, for all users a and b.
C1_FriendshipSymmetric ==
  \A a, b \in UserIds : areFriends(a, b) <=> areFriends(b, a)

\* two users are friends again, in both directions, after a removal
C1_Witness ==
  /\ result.op = "acceptFriendRequest" /\ result.err = "none"
  /\ \E i \in DOMAIN friendRequests :
       i /= result.requestId /\ friendRequests[i].status = "accepted"
  /\ \E a, b \in UserIds : a /= b /\ areFriends(a, b) /\ areFriends(b, a)

\* C2: for every viewer (null included), limit and offset, every post that
\* getFeed returns satisfies canViewPost for that viewer, and no returned post
\* is a friends_only post of an author who is neither the viewer nor a friend
\* of the viewer.
C2_FeedOnlyVisible ==
  \A v \in Viewers, l \in PageSizes, o \in PageSizes :
    LET page == getFeed(v, l, o).posts
    IN  \A i \in 1..Len(page) :
          /\ canViewPost(page[i], v)
          /\ ~ /\ page[i].visibility = "friends_only"
               /\ page[i].authorId /= v
               /\ ~ /\ page[i].authorId \in DOMAIN friendsByUser
                    /\ v \in friendsByUser[page[i].authorId]

\* a viewer's feed holds the friends_only post of a friend while the store
\* also holds a friends_only post of somebody who is not a friend
C2_Witness ==
  \E v \in Viewers \ {NoUser} : \E i, j \in 1..Len(posts) :
    /\ posts[i].visibility = "friends_only" /\ posts[i].authorId /= v
    /\ ~areFriends(posts[i].authorId, v)
    /\ posts[j].visibility = "friends_only" /\ posts[j].authorId /= v
    /\ areFriends(posts[j].authorId, v)
    /\ getFeed(v, MaxPosts, 0).posts = <<posts[j]>>

\* C3: canViewPost is true for every viewer, null included, when the post is
\* public; for a friends_only post of author A it is true for A, false for
\* null, and equal to areFriends(A, X) for any other viewer X.
C3_CanViewPost ==
  \A i \in 1..Len(posts), v \in Viewers :
    LET post == posts[i]
        A == post.authorId
    IN  /\ post.visibility = "public" => canViewPost(post, v)
        /\ post.visibility = "friends_only" =>
             /\ v = A => canViewPost(post, v)
             /\ v = NoUser => ~canViewPost(post, v)
             /\ (v /= A /\ v /= NoUser) =>
                  (canViewPost(post, v) <=> (A \in DOMAIN friendsByUser
                                             /\ v \in friendsByUser[A]))

\* one friends_only post that its author and a friend can view and a third
\* user cannot, next to a public post
C3_Witness ==
  \E i, j \in 1..Len(posts), x, y \in Viewers \ {NoUser} :
    /\ posts[i].visibility = "friends_only" /\ posts[j].visibility = "public"
    /\ x /= posts[i].authorId /\ y /= posts[i].authorId
    /\ canViewPost(posts[i], posts[i].authorId)
    /\ canViewPost(posts[i], x) /\ ~canViewPost(posts[i], y)
    /\ ~canViewPost(posts[i], NoUser) /\ canViewPost(posts[j], NoUser)

\* C4 as claimed: on a request already accepted or declined, acceptFriendRequest
\* and declineFriendRequest fail with FriendRequestNotFound whoever the acting
\* user is.
C4_Original ==
  [][(result'.op \in {"acceptFriendRequest", "declineFriendRequest"}
      /\ Handled(result'.requestId))
       => result'.err = "FriendRequestNotFound"]_vars

\* C4 as amended: on a request already accepted or declined, acceptFriendRequest
\* and declineFriendRequest fail with FriendRequestNotFound, the error of an
\* unknown request id, when the acting user is the request's recipient, and
\* with Forbidden when the acting user is anybody else; no other error occurs.
C4_HandledRequest ==
  [][result'.op \in {"acceptFriendRequest", "declineFriendRequest"} =>
       LET r == result'.requestId
           u == result'.userId
       IN  /\ r \notin DOMAIN friendRequests => result'.err = "FriendRequestNotFound"
           /\ (Handled(r) /\ u = friendRequests[r].toUserId)
                => result'.err = "FriendRequestNotFound"
           /\ (Handled(r) /\ u /= friendRequests[r].toUserId)
                => result'.err = "Forbidden"]_vars

\* the recipient has just tried to accept a request declined before
C4_Witness ==
  /\ result.op = "acceptFriendRequest" /\ result.err = "FriendRequestNotFound"
  /\ result.requestId \in DOMAIN friendRequests
  /\ friendRequests[result.requestId].status = "declined"
  /\ friendRequests[result.requestId].toUserId = result.userId

\* C5: a friend request is created pending; its status changes only from
\* pending to accepted or to declined, hence at most once; a request that is
\* accepted or declined never changes again; no request is ever removed.
C5_RequestLifecycle ==
  [][/\ \A id \in DOMAIN friendRequests :
          /\ id \in DOMAIN friendRequests'
          /\ friendRequests'[id].status /= friendRequests[id].status =>
               /\ friendRequests[id].status = "pending"
               /\ friendRequests'[id].status \in {"accepted", "declined"}
     /\ \A id \in DOMAIN friendRequests' \ DOMAIN friendRequests :
          friendRequests'[id].status = "pending"]_vars

\* an accepted and a declined request are stored, and a call on one of them
\* has just been refused
C5_Witness ==
  /\ \E i, j \in DOMAIN friendRequests :
       friendRequests[i].status = "accepted" /\ friendRequests[j].status = "declined"
  /\ result.op \in {"acceptFriendRequest", "declineFriendRequest"}
  /\ result.err = "FriendRequestNotFound"
  /\ result.requestId \in DOMAIN friendRequests

\* C6: in every reachable state no two stored users share a lowercased email
\* and no two stored users share a lowercased username.
C6_UniqueUsers ==
  \A i, j \in DOMAIN users :
    i /= j => /\ toLowerCase(users[i].email) /= toLowerCase(users[j].email)
              /\ toLowerCase(users[i].username) /= toLowerCase(users[j].username)

\* C7: sendFriendRequest(from, to) between two existing distinct users fails
\* with DuplicateFriendRequest and creates no request whenever they are
\* friends already, or a pending request from->to or to->from exists.
C7_DuplicateRequest ==
  [][result'.op = "sendFriendRequest" =>
       LET f == result'.fromUserId
           t == result'.toUserId
       IN  (/\ f /= t /\ f \in DOMAIN users /\ t \in DOMAIN users
            /\ (areFriends(f, t) \/ PendingFromTo(f, t) \/ PendingFromTo(t, f)))
             => /\ result'.err = "DuplicateFriendRequest"
                /\ friendRequests' = friendRequests]_vars

\* a request has just been refused as a duplicate with nothing but a pending
\* request in the opposite direction in its way
C7_Witness ==
  /\ result.op = "sendFriendRequest" /\ result.err = "DuplicateFriendRequest"
  /\ PendingFromTo(result.toUserId, result.fromUserId)
  /\ ~PendingFromTo(result.fromUserId, result.toUserId)
  /\ ~areFriends(result.fromUserId, result.toUserId)

\* C8: right after a successful acceptFriendRequest on a request from a to b,
\* the request is accepted and areFriends(a,b) and areFriends(b,a) are true.
C8_AcceptLinksBoth ==
  (result.op = "acceptFriendRequest" /\ result.err = "none") =>
    LET request == friendRequests[result.requestId]
    IN  /\ request.status = "accepted"
        /\ request.toUserId = result.userId
        /\ areFriends(request.fromUserId, request.toUserId)
        /\ areFriends(request.toUserId, request.fromUserId)

\* a request has just been accepted
C8_Witness ==
  /\ result.op = "acceptFriendRequest" /\ result.err = "none"
  /\ friendRequests[result.requestId].status = "accepted"

\* C9: acceptFriendRequest or declineFriendRequest on a pending request by
\* anybody but its recipient, the sender included, fails with Forbidden; the
\* request stays pending and no friendship edge is created.
C9_OnlyRecipient ==
  [][result'.op \in {"acceptFriendRequest", "declineFriendRequest"} =>
       LET r == result'.requestId
           u == result'.userId
       IN  (Pending(r) /\ u /= friendRequests[r].toUserId)
             => /\ result'.err = "Forbidden"
                /\ friendRequests'[r].status = "pending"
                /\ friendships' = friendships
                /\ friendsByUser' = friendsByUser]_vars

\* the sender has just been refused the acceptance of their own pending request
C9_Witness ==
  /\ result.op = "acceptFriendRequest" /\ result.err = "Forbidden"
  /\ Pending(result.requestId)
  /\ friendRequests[result.requestId].fromUserId = result.userId

\* C10: a successful declineFriendRequest sets the request's status to
\* declined and changes nothing else; no areFriends result changes.
C10_DeclineFrame ==
  [][(result'.op = "declineFriendRequest" /\ result'.err = "none") =>
       LET r == result'.requestId
       IN  /\ friendRequests' = [friendRequests EXCEPT ![r].status = "declined"]
           /\ friendRequests[r].status = "pending"
           /\ UNCHANGED <<userVars, friendships, friendsByUser, postVars>>
           /\ \A a, b \in UserIds :
                (a \in DOMAIN friendsByUser' /\ b \in friendsByUser'[a])
                  <=> areFriends(a, b)]_vars

\* a request has just been declined and its two users are not friends
C10_Witness ==
  /\ result.op = "declineFriendRequest" /\ result.err = "none"
  /\ friendRequests[result.requestId].status = "declined"
  /\ ~areFriends(friendRequests[result.requestId].fromUserId,
                 friendRequests[result.requestId].toUserId)

\* C11: removeFriend(u, f) fails with NotFriends when u and f are not friends;
\* otherwise it succeeds, and afterwards neither is a friend of the other,
\* whichever of the two asked.
C11_RemoveFriend ==
  [][\A u, f \in UserIds :
       (result'.op = "removeFriend" /\ result'.userId = u /\ result'.friendId = f) =>
         IF ~areFriends(u, f)
         THEN /\ result'.err = "NotFriends"
              /\ UNCHANGED <<friendships, friendsByUser>>
         ELSE /\ result'.err = "none"
              /\ ~areFriends(u, f)'
              /\ ~areFriends(f, u)'
              /\ <<u, f>> \notin DOMAIN friendships'
              /\ <<f, u>> \notin DOMAIN friendships']_vars

\* the recipient of an accepted request has removed the sender: the removal
\* came from the side that did not start the friendship
C11_Witness ==
  /\ result.op = "removeFriend" /\ result.err = "none"
  /\ \E r \in DOMAIN friendRequests :
       /\ friendRequests[r].status = "accepted"
       /\ friendRequests[r].toUserId = result.userId
       /\ friendRequests[r].fromUserId = result.friendId
  /\ ~areFriends(result.userId, result.friendId)
  /\ ~areFriends(result.friendId, result.userId)

\* C12: when u1 accepts the friend request u2 sent, every friends_only post P
\* of u1 that getPost(P.id, u2) refused with AccessDenied before the acceptance
\* is returned by getPost(P.id, u2) after it.
C12_FriendSeesPost ==
  [][\A r \in RequestIds, u1, u2 \in UserIds :
       (/\ result'.op = "acceptFriendRequest" /\ result'.err = "none"
        /\ result'.requestId = r
        /\ r \in DOMAIN friendRequests
        /\ friendRequests[r].fromUserId = u2
        /\ friendRequests[r].toUserId = u1) =>
         \A i \in 1..Len(posts) :
           (posts[i].authorId = u1 /\ posts[i].visibility = "friends_only") =>
             /\ getPostResult(posts[i].id, u2) = [err |-> "AccessDenied", post |-> undefined]
             /\ getPostResult(posts[i].id, u2)' = [err |-> "none", post |-> posts[i]]]_vars

\* getPost has returned a friends_only post to the sender of a request its
\* author accepted
C12_Witness ==
  /\ result.op = "getPost" /\ result.err = "none" /\ result.post /= undefined
  /\ result.post.visibility = "friends_only"
  /\ result.post.authorId /= result.requesterId
  /\ \E r \in DOMAIN friendRequests :
       /\ friendRequests[r].status = "accepted"
       /\ friendRequests[r].fromUserId = result.requesterId
       /\ friendRequests[r].toUserId = result.post.authorId

\* C13: getPost(id, requester) returns null when no post has that id, fails
\* with AccessDenied (and does not return null) when the post exists and the
\* requester may not view it, and returns the post when the requester may.
C13_GetPost ==
  [][result'.op = "getPost" =>
       LET stored == {i \in 1..Len(posts) : posts[i].id = result'.postId}
       IN  /\ stored = {} => (result'.err = "none" /\ result'.post = undefined)
           /\ \A i \in stored :
                IF (\/ posts[i].visibility = "public"
                    \/ (result'.requesterId /= NoUser /\
                          (\/ posts[i].authorId = result'.requesterId
                           \/ areFriends(posts[i].authorId, result'.requesterId))))
                THEN result'.err = "none" /\ result'.post = posts[i]
                ELSE result'.err = "AccessDenied"
           /\ UNCHANGED storeVars]_vars

\* getPost has refused a requester who is neither the author nor a friend of
\* the author of a stored friends_only post
C13_Witness ==
  /\ result.op = "getPost" /\ result.err = "AccessDenied"
  /\ result.requesterId /= NoUser
  /\ \E i \in 1..Len(posts) :
       /\ posts[i].id = result.postId
       /\ posts[i].visibility = "friends_only"
       /\ ~areFriends(posts[i].authorId, result.requesterId)

\* the stored posts the viewer may view
VisiblePosts(viewerId) == {i \in 1..Len(posts) : canViewPost(posts[i], viewerId)}

\* C14: the total getFeed reports is the number of stored posts the viewer may
\* view, whatever the limit and the offset.
C14_FeedTotal ==
  \A v \in Viewers, l \in FeedLimits, o \in FeedOffsets :
    getFeed(v, l, o).total = Cardinality(VisiblePosts(v))

\* a viewer who may view some stored posts and not others, so that the total
\* is neither 0 nor the number of stored posts, and a page shorter than it
C14_Witness ==
  \E v \in Viewers :
    /\ VisiblePosts(v) /= {}
    /\ VisiblePosts(v) /= 1..Len(posts)
    /\ \E l \in FeedLimits, o \in FeedOffsets :
         Len(getFeed(v, l, o).posts) < getFeed(v, l, o).total

\* C15: getFeed reports hasMore exactly when the offset plus the number of
\* returned posts is below the number of posts the viewer may view; an offset
\* at or beyond that number gives an empty page and hasMore = false.
C15_FeedHasMore ==
  \A v \in Viewers, l \in FeedLimits, o \in FeedOffsets :
    LET feed == getFeed(v, l, o)
        visible == Cardinality(VisiblePosts(v))
    IN  /\ feed.hasMore <=> (o + Len(feed.posts) < visible)
        /\ o >= visible => (feed.posts = <<>> /\ feed.hasMore = FALSE)

\* some viewer gets a full page that ends exactly at the last visible post
\* (no more), a page that stops before it (more), and an empty page from an
\* offset past the last visible post
C15_Witness ==
  \E v \in Viewers :
    /\ Cardinality(VisiblePosts(v)) = 2
    /\ getFeed(v, 1, 1).posts /= <<>> /\ ~getFeed(v, 1, 1).hasMore
    /\ getFeed(v, 1, 0).posts /= <<>> /\ getFeed(v, 1, 0).hasMore
    /\ getFeed(v, 1, 3).posts = <<>> /\ ~getFeed(v, 1, 3).hasMore

\* C17: with limit 0 and an offset below the number of posts the viewer may
\* view, getFeed returns an empty page, reports that number as total, and
\* reports hasMore = true.
C17_FeedLimitZero ==
  \A v \in Viewers, o \in FeedOffsets :
    o < Cardinality(VisiblePosts(v)) =>
      /\ getFeed(v, 0, o).posts = <<>>
      /\ getFeed(v, 0, o).total = Cardinality(VisiblePosts(v))
      /\ (VisiblePosts(v) /= {} => getFeed(v, 0, o).hasMore)

\* a viewer with visible posts asks for a page of limit 0 at an offset below
\* their number, and the same offset with limit 1 is not empty
C17_Witness ==
  \E v \in Viewers, o \in FeedOffsets :
    /\ o >= 0 /\ o < Cardinality(VisiblePosts(v))
    /\ getFeed(v, 0, o).posts = <<>> /\ getFeed(v, 0, o).hasMore
    /\ getFeed(v, 1, o).posts /= <<>>

\* the posts the viewer may view that are newer than post p, and those that
\* are not older than it
Newer(viewerId, p) ==
  {i \in VisiblePosts(viewerId) : posts[i].createdAt > p.createdAt}
NotOlder(viewerId, p) ==
  {i \in VisiblePosts(viewerId) : posts[i].createdAt >= p.createdAt}
DistinctCreatedAt(viewerId) ==
  \A i, j \in VisiblePosts(viewerId) :
    i /= j => posts[i].createdAt /= posts[j].createdAt
Min(a, b) == IF a < b THEN a ELSE b

\* C16: for a limit and an offset that are not negative, getFeed returns the
\* posts at positions offset .. offset+limit-1 of the posts the viewer may
\* view, newest first: the page has the length of that range, createdAt never
\* increases along it, its k-th post has the rank offset+k among the visible
\* posts, and when the createdAt values are distinct the pages at offsets
\* 0, limit, 2*limit, ... hold every visible post exactly once.
C16_FeedOrder ==
  \A v \in Viewers, l \in 0..MaxPosts, o \in 0..(MaxPosts + 1) :
    LET page == getFeed(v, l, o).posts
        n == Cardinality(VisiblePosts(v))
    IN  /\ Len(page) = (IF o >= n THEN 0 ELSE Min(l, n - o))
        /\ \A k \in 1..Len(page) :
             /\ \E i \in VisiblePosts(v) : posts[i] = page[k]
             /\ Cardinality(Newer(v, page[k])) <= o + k - 1
             /\ o + k - 1 < Cardinality(NotOlder(v, page[k]))
        /\ \A j, k \in 1..Len(page) : j < k => page[j].createdAt >= page[k].createdAt
        /\ (DistinctCreatedAt(v) /\ l >= 1) =>
             \A i \in VisiblePosts(v) :
               Cardinality({<<m, k>> \in (0..MaxPosts) \X (1..MaxPosts) :
                              /\ k <= Len(getFeed(v, l, m * l).posts)
                              /\ getFeed(v, l, m * l).posts[k] = posts[i]}) = 1

\* a viewer who may view two posts created at different times, the newer one
\* stored first: the two pages of limit 1 hold the newer, then the older post
C16_Witness ==
  \E v \in Viewers :
    /\ Cardinality(VisiblePosts(v)) = 2
    /\ DistinctCreatedAt(v)
    /\ Len(getFeed(v, 1, 0).posts) = 1
    /\ Len(getFeed(v, 1, 1).posts) = 1
    /\ getFeed(v, 1, 0).posts[1].createdAt > getFeed(v, 1, 1).posts[1].createdAt
    /\ \E i, j \in VisiblePosts(v) : i < j /\ posts[i].createdAt > posts[j].createdAt

\* C18: updatePost checks in this order: no userId gives Unauthorized; else an
\* unknown post id gives PostNotFound; else a userId that is not the author
\* gives AccessDenied; only then is updates.content validated.  A non-author
\* gets AccessDenied also with an invalid content.
C18_UpdateCheckOrder ==
  [][result'.op = "updatePost" =>
       LET u == result'.userId
           up == result'.updates
           stored == {i \in 1..Len(posts) : posts[i].id = result'.postId}
           invalid == "content" \in DOMAIN up /\ validateContent(up.content) /= <<>>
       IN  IF u = NoUser THEN result'.err = "Unauthorized"
           ELSE IF stored = {} THEN result'.err = "PostNotFound"
           ELSE IF \E i \in stored : posts[i].authorId /= u
                THEN result'.err = "AccessDenied"
           ELSE IF invalid
                THEN result'.err \in {"EmptyContent", "InvalidFormat", "FileTooLarge"}
           ELSE result'.err = "none"]_vars

\* a user who is not the author has sent an invalid content for a stored post
\* and got AccessDenied
C18_Witness ==
  /\ result.op = "updatePost" /\ result.err = "AccessDenied"
  /\ "content" \in DOMAIN result.updates
  /\ validateContent(result.updates.content) /= <<>>
  /\ \E i \in 1..Len(posts) :
       posts[i].id = result.postId /\ posts[i].authorId /= result.userId

\* C19: updatePost on a stored post by a user who is not its author fails with
\* AccessDenied and leaves the stored post, and the whole store, as it was.
C19_UpdateDeniedFrame ==
  [][(/\ result'.op = "updatePost"
      /\ result'.userId /= NoUser
      /\ \E i \in 1..Len(posts) :
           posts[i].id = result'.postId /\ posts[i].authorId /= result'.userId) =>
       /\ result'.err = "AccessDenied"
       /\ posts' = posts
       /\ postsByAuthor' = postsByAuthor]_vars

\* a user who is not the author has sent a visibility for a stored
\* friends_only post, got AccessDenied, and the post is still friends_only and
\* not edited
C19_Witness ==
  /\ result.op = "updatePost" /\ result.err = "AccessDenied"
  /\ "visibility" \in DOMAIN result.updates
  /\ \E i \in 1..Len(posts) :
       /\ posts[i].id = result.postId
       /\ posts[i].authorId /= result.userId
       /\ posts[i].visibility = "friends_only"
       /\ posts[i].visibility /= result.updates.visibility
       /\ ~posts[i].isEdited

\* C20: a successful updatePost leaves the post's id, authorId and createdAt
\* as they were, leaves content (visibility) as it was when updates has no
\* content (visibility), and changes nothing but the supplied fields, isEdited
\* and updatedAt; the other posts stay as they were.
C20_UpdateFrame ==
  [][(result'.op = "updatePost" /\ result'.err = "none") =>
       /\ Len(posts') = Len(posts)
       /\ postsByAuthor' = postsByAuthor
       /\ \A i \in 1..Len(posts) :
            IF posts[i].id /= result'.postId THEN posts'[i] = posts[i]
            ELSE /\ posts'[i].id = posts[i].id
                 /\ posts'[i].authorId = posts[i].authorId
                 /\ posts'[i].createdAt = posts[i].createdAt
                 /\ posts'[i].content =
                      (IF "content" \in DOMAIN result'.updates
                       THEN result'.updates.content ELSE posts[i].content)
                 /\ posts'[i].visibility =
                      (IF "visibility" \in DOMAIN result'.updates
                       THEN result'.updates.visibility ELSE posts[i].visibility)
                 /\ DOMAIN posts'[i] = DOMAIN posts[i]
                 /\ result'.post = posts'[i]]_vars

\* the author has changed the content, and only it, of a post made public
\* before, at a time after its creation
C20_Witness ==
  /\ result.op = "updatePost" /\ result.err = "none"
  /\ DOMAIN result.updates = {"content"}
  /\ result.post.content = result.updates.content
  /\ result.post.visibility = "public"
  /\ result.post.isEdited
  /\ result.post.updatedAt > result.post.createdAt
  /\ \E i \in 1..Len(posts) : posts[i] = result.post

\* C21: every successful updatePost leaves the post with isEdited true, and a
\* post whose isEdited is true keeps it true for as long as a post with its id
\* is stored.  (Violated: a createPost that draws the id of a stored post puts
\* a fresh, unedited post in its place.)
C21_IsEditedSticky ==
  [][/\ (result'.op = "updatePost" /\ result'.err = "none") =>
          \E j \in 1..Len(posts') :
            posts'[j].id = result'.postId /\ posts'[j].isEdited
     /\ \A i \in 1..Len(posts), j \in 1..Len(posts') :
          (posts[i].id = posts'[j].id /\ posts[i].isEdited) => posts'[j].isEdited]_vars

\* C22: deletePost fails with Unauthorized without a userId, else with
\* PostNotFound for an unknown id, else with AccessDenied for a user who is not
\* the author, and otherwise succeeds; a failed call leaves the posts alone;
\* after a successful one the post is in neither the post map nor its author's
\* index, getPost gives null for its id, getPostsByAuthor and getFeed do not
\* hold it, and every other post is as it was.
C22_DeletePost ==
  [][\A id \in PostIds \cup {UnknownPostId} :
       (result'.op = "deletePost" /\ result'.postId = id) =>
         LET u == result'.userId
             stored == {i \in 1..Len(posts) : posts[i].id = id}
         IN  /\ result'.err =
                  (IF u = NoUser THEN "Unauthorized"
                   ELSE IF stored = {} THEN "PostNotFound"
                   ELSE IF \E i \in stored : posts[i].authorId /= u THEN "AccessDenied"
                   ELSE "none")
             /\ result'.err /= "none" => UNCHANGED <<posts, postsByAuthor>>
             /\ result'.err = "none" =>
                  /\ \A j \in 1..Len(posts') : posts'[j].id /= id
                  /\ Len(posts') = Len(posts) - 1
                  /\ \A i \in 1..Len(posts) :
                       posts[i].id /= id => \E j \in 1..Len(posts') : posts'[j] = posts[i]
                  /\ \A i \in stored :
                       \/ posts[i].authorId \notin DOMAIN postsByAuthor'
                       \/ id \notin postsByAuthor'[posts[i].authorId]
                  /\ \A v \in Viewers :
                       /\ getPostResult(id, v)' = [err |-> "none", post |-> undefined]
                       /\ \A p \in getPostsByAuthor(v)' : p.id /= id
                       /\ \A k \in 1..Len(getFeed(v, MaxPosts, 0).posts') :
                            getFeed(v, MaxPosts, 0).posts'[k].id /= id]_vars

\* the author has deleted one of two stored posts; the other is still stored
\* and the deleted id is in no index
C22_Witness ==
  /\ result.op = "deletePost" /\ result.err = "none"
  /\ Len(posts) = 1
  /\ posts[1].id /= result.postId
  /\ posts[1].authorId = result.userId
  /\ \A a \in DOMAIN postsByAuthor : result.postId \notin postsByAuthor[a]

\* C23: a call that fails leaves the whole store (users, sessions, friend
\* requests, friendships, posts and all their indices) exactly as it was.
C23_AllOrNothing ==
  [][result'.err /= "none" => UNCHANGED storeVars]_vars

\* a user who is not the recipient has tried to accept a pending request and
\* failed, while users, a session and a post are stored
C23_Witness ==
  /\ result.op = "acceptFriendRequest" /\ result.err = "Forbidden"
  /\ result.requestId \in DOMAIN friendRequests
  /\ friendRequests[result.requestId].status = "pending"
  /\ DOMAIN sessions /= {}
  /\ posts /= <<>>

\* the four agreements of C24, one per secondary index
PostIndexAgrees ==
  \A a \in UserIds, id \in PostIds :
    (a \in DOMAIN postsByAuthor /\ id \in postsByAuthor[a])
      <=> (\E i \in 1..Len(posts) : posts[i].id = id /\ posts[i].authorId = a)
TokenIndexAgrees ==
  \A t \in SessionTokens, id \in SessionIds :
    (t \in DOMAIN sessionsByToken /\ sessionsByToken[t] = id)
      <=> (id \in DOMAIN sessions /\ sessions[id].token = t)
UserSessionIndexAgrees ==
  \A u \in UserIds, id \in SessionIds :
    (u \in DOMAIN sessionsByUser /\ id \in sessionsByUser[u])
      <=> (id \in DOMAIN sessions /\ sessions[id].userId = u)
FriendIndexAgrees ==
  \A u, f \in UserIds :
    (u \in DOMAIN friendsByUser /\ f \in friendsByUser[u])
      <=> (<<u, f>> \in DOMAIN friendships
           /\ friendships[<<u, f>>].userId = u /\ friendships[<<u, f>>].friendId = f)

\* C24: in every reachable state the secondary indices agree with the primary
\* maps: the author index with the posts, the token index and the per-user
\* index with the sessions, the friend index with the friendship edges.
\* (Violated: a createPost that draws the id of another author's stored post
\* replaces the post and leaves the id in the first author's index.)
C24_IndicesAgree ==
  /\ PostIndexAgrees
  /\ TokenIndexAgrees
  /\ UserSessionIndexAgrees
  /\ FriendIndexAgrees

\* the session is stored under none of its keys
SessionGone(ss, st, su, session) ==
  /\ session.id \notin DOMAIN ss
  /\ session.token \notin DOMAIN st
  /\ \A u \in DOMAIN su : session.id \notin su[u]

\* C25: validateSession and validateSessionByToken never fail; for an unknown
\* session they return null and change nothing; for a session whose expiresAt
\* has passed they return null and delete it under its id, its token and its
\* user's session set; otherwise they return the user and change nothing.
C25_ValidateSession ==
  [][\A id \in SessionIds :
       (/\ now' = now
        /\ \/ (result'.op = "validateSession" /\ result'.sessionId = id)
           \/ (result'.op = "validateSessionByToken"
                 /\ result'.token = generateSessionToken(id))) =>
         /\ result'.err = "none"
         /\ UNCHANGED <<userVars, friendVars, postVars>>
         /\ IF id \notin DOMAIN sessions
            THEN result'.user = undefined /\ UNCHANGED sessionVars
            ELSE IF now > sessions[id].expiresAt
            THEN /\ result'.user = undefined
                 /\ SessionGone(sessions', sessionsByToken', sessionsByUser', sessions[id])
                 /\ \A o \in DOMAIN sessions :
                      o /= id => (o \in DOMAIN sessions' /\ sessions'[o] = sessions[o])
            ELSE /\ result'.user = users[sessions[id].userId]
                 /\ UNCHANGED sessionVars]_vars

\* a validation has found a session handed out earlier expired and removed it,
\* while a later session of the same user is still stored
C25_Witness ==
  /\ result.op \in {"validateSession", "validateSessionByToken"}
  /\ result.user = undefined
  /\ 1 \notin DOMAIN sessions
  /\ generateSessionToken(1) \notin DOMAIN sessionsByToken
  /\ 2 \in DOMAIN sessions
  /\ sessions[2].userId \in DOMAIN sessionsByUser
  /\ sessionsByUser[sessions[2].userId] = {2}
  /\ now > SESSION_DURATION_MS
  /\ sessions[2].expiresAt >= now

\* C26: logout of a stored session deletes it, and validateSession for its id
\* and validateSessionByToken for its token then return null; logout of a
\* session id that is not stored, one logged out before included, fails with
\* InvalidSession and changes nothing.
C26_Logout ==
  [][\A id \in SessionIds, t \in SessionTokens :
       (/\ result'.op = "logout" /\ result'.sessionId = id
        /\ now' = now
        /\ (id \in DOMAIN sessions => sessions[id].token = t)) =>
         IF id \in DOMAIN sessions
         THEN /\ result'.err = "none"
              /\ SessionGone(sessions', sessionsByToken', sessionsByUser', sessions[id])
              /\ validateFound(getSessionById(id))'.user = undefined
              /\ validateFound(getSessionByToken(t))'.user = undefined
              /\ \A o \in DOMAIN sessions :
                   o /= id => (o \in DOMAIN sessions' /\ sessions'[o] = sessions[o])
         ELSE /\ result'.err = "InvalidSession"
              /\ result'.error = InvalidSessionError
              /\ UNCHANGED sessionVars]_vars

\* a logout of a session id that was handed out, and logged out before the
\* clock moved, has failed
C26_Witness ==
  /\ result.op = "logout" /\ result.err = "InvalidSession"
  /\ result.sessionId <= issued
  /\ now = 0
  /\ DOMAIN users /= {}

\* the session is stored as it was, under its id, its token and its user
SessionKept(ss, st, su, session) ==
  /\ session.id \in DOMAIN ss /\ ss[session.id] = session
  /\ session.token \in DOMAIN st /\ st[session.token] = session.id
  /\ session.userId \in DOMAIN su /\ session.id \in su[session.userId]

\* C27: a user may hold several sessions at once: a successful login stores a
\* new session whose id and token no stored session has and leaves every
\* earlier session as it was, and a successful logout of one session leaves
\* every other session, those of the same user included, as it was.
C27_ConcurrentSessions ==
  [][/\ (result'.op = "login" /\ result'.err = "none" /\ issued' = issued + 1) =>
         /\ result'.session.id \notin DOMAIN sessions
         /\ result'.session.token \notin DOMAIN sessionsByToken
         /\ \A o \in DOMAIN sessions : sessions[o].token /= result'.session.token
         /\ SessionKept(sessions', sessionsByToken', sessionsByUser', result'.session)
         /\ \A o \in DOMAIN sessions :
              SessionKept(sessions', sessionsByToken', sessionsByUser', sessions[o])
     /\ \A id \in SessionIds :
          (/\ result'.op = "logout" /\ result'.err = "none"
           /\ result'.sessionId = id /\ id \in DOMAIN sessions) =>
            \A o \in DOMAIN sessions \ {id} :
              SessionKept(sessions', sessionsByToken', sessionsByUser', sessions[o])
    ]_vars

\* the only user has logged in twice and logged out of one of the two
\* sessions, and the other one is still stored
C27_Witness ==
  /\ result.op = "logout" /\ result.err = "none"
  /\ Cardinality(DOMAIN users) = 1
  /\ issued = 2
  /\ Cardinality(DOMAIN sessions) = 1
  /\ \A o \in DOMAIN sessions : validateFound(sessions[o]).user /= undefined

\* C28: a login with an address that belongs to no user and a login with the
\* address of a user and a wrong password fail with the same error, the
\* InvalidCredentials one with its code and its message, and store no session.
C28_LoginFailuresAlike ==
  [][\A e \in LoginEmails, p \in LoginPasswords :
       (/\ result'.op = "login" /\ result'.email = e /\ result'.password = p
        /\ now' = now
        /\ \/ getUserByEmail(e) = undefined
           \/ ~verifyPassword(p, getUserByEmail(e).passwordHash)) =>
         /\ result'.err = "InvalidCredentials"
         /\ result'.error = InvalidCredentialsError
         /\ result'.error.code = "INVALID_CREDENTIALS"
         /\ result'.error.message = "Invalid email or password"
         /\ DOMAIN result' = {"op", "email", "password", "err", "error"}
         /\ UNCHANGED <<storeVars, issued, pageVars>>]_vars

\* a login with the address of a registered user and a wrong password has
\* failed, after a login with an address nobody has would fail too
C28_Witness ==
  /\ result.op = "login" /\ result.err = "InvalidCredentials"
  /\ getUserByEmail(result.email) /= undefined
  /\ ~verifyPassword(result.password, getUserByEmail(result.email).passwordHash)
  /\ \E e \in LoginEmails : getUserByEmail(e) = undefined

C30_FreshPostId ==
  [][(result'.op = "createPost" /\ result'.err = "none") =>
       /\ \A i \in 1..Len(posts) : posts[i].id /= result'.post.id
       /\ Len(posts') = Len(posts) + 1
       /\ \A i \in 1..Len(posts) : posts'[i] = posts[i]]_vars

\* C31: a successful createPost stores a post whose author is the caller,
\* whose isEdited is false and whose updatedAt equals its createdAt, the time
\* of the call; called without a visibility, the post is friends_only, and
\* with one, the post has it.
C31_NewPost ==
  [][\A v \in FeedVisibilities :
       (/\ result'.op = "createPost" /\ result'.err = "none"
        /\ result'.visibility = v /\ now' = now) =>
         /\ result'.post.authorId = result'.userId
         /\ result'.post.content = result'.content
         /\ ~result'.post.isEdited
         /\ result'.post.updatedAt = result'.post.createdAt
         /\ result'.post.createdAt = now
         /\ result'.post.visibility = IF v = NoVisibility THEN "friends_only" ELSE v
         /\ \E j \in 1..Len(posts') : posts'[j] = result'.post]_vars

\* the second author has created a post without a visibility, after the
\* clock had moved on
C31_Witness ==
  /\ result.op = "createPost" /\ result.err = "none"
  /\ result.visibility = NoVisibility
  /\ result.userId = 2
  /\ now > 0
  /\ \E j \in 1..Len(posts) :
       /\ posts[j] = result.post
       /\ posts[j].visibility = "friends_only"
       /\ posts[j].createdAt = now

\* the validation errors by what they report
EmptyErrors ==
  {"Content cannot be empty", "Text content cannot be empty",
   "Image content cannot be empty", "Video content cannot be empty"}
FormatErrors ==
  {"Unsupported image format. Supported formats: JPEG, PNG, GIF",
   "Unsupported video format. Supported formats: MP4, WebM"}
SizeErrors ==
  {"Image file exceeds maximum size of 10MB",
   "Video file exceeds maximum size of 100MB"}
Contains(errors, kind) == \E i \in 1..Len(errors) : errors[i] \in kind
ExpectedKind(errors) ==
  IF Contains(errors, EmptyErrors) THEN "EmptyContent"
  ELSE IF Contains(errors, FormatErrors) THEN "InvalidFormat"
  ELSE IF Contains(errors, SizeErrors) THEN "FileTooLarge"
  ELSE "EmptyContent"

\* C32: a createPost or updatePost whose content fails validation raises
\* EmptyContent if the errors hold an empty-content one, else InvalidFormat if
\* they hold an unsupported-format one, else FileTooLarge if they hold a
\* too-large one, else EmptyContent; the store stays as it was.
C32_ValidationErrorKind ==
  [][\A c \in ContentInputs :
       /\ (/\ result'.op = "createPost" /\ result'.userId /= NoUser
           /\ result'.content = c /\ validateContent(c) /= <<>>) =>
            /\ result'.err = ExpectedKind(validateContent(c))
            /\ UNCHANGED storeVars
       /\ (/\ result'.op = "updatePost" /\ result'.updates = [content |-> c]
           /\ c /= undefined /\ validateContent(c) /= <<>>
           /\ \E i \in 1..Len(posts) :
                posts[i].id = result'.postId /\ posts[i].authorId = result'.userId) =>
            /\ result'.err = ExpectedKind(validateContent(c))
            /\ UNCHANGED storeVars]_vars

\* an updatePost with an image that is both of an unsupported format and too
\* large has failed with InvalidFormat
C32_Witness ==
  /\ result.op = "updatePost" /\ result.err = "InvalidFormat"
  /\ Has(result.updates, "content")
  /\ Len(validateContent(result.updates.content)) = 2
  /\ Len(posts) > 0

\* the requests between the two users, in either direction, with the status
RequestsBetween(a, b, status) ==
  {id \in DOMAIN friendRequests :
     /\ {friendRequests[id].fromUserId, friendRequests[id].toUserId} = {a, b}
     /\ friendRequests[id].status = status}

\* C33: once a request between two users has been declined, or accepted and
\* the friendship removed, a sendFriendRequest between them, in either
\* direction, succeeds and stores a new pending request, provided no pending
\* request is left between them.
C33_HandledRequestDoesNotBlock ==
  [][\A f, t \in UserIds :
       (/\ result'.op = "sendFriendRequest"
        /\ result'.fromUserId = f /\ result'.toUserId = t
        /\ f /= t /\ f \in DOMAIN users /\ t \in DOMAIN users
        /\ RequestsBetween(f, t, "declined") \cup RequestsBetween(f, t, "accepted") /= {}
        /\ RequestsBetween(f, t, "pending") = {}
        /\ ~areFriends(f, t)) =>
         /\ result'.err = "none"
         /\ result'.request.id \notin DOMAIN friendRequests
         /\ result'.request.id \in DOMAIN friendRequests'
         /\ friendRequests'[result'.request.id] =
              [id |-> result'.request.id, fromUserId |-> f, toUserId |-> t,
               status |-> "pending", createdAt |-> now]
         /\ \A id \in DOMAIN friendRequests :
              id \in DOMAIN friendRequests' /\ friendRequests'[id] = friendRequests[id]
    ]_vars

\* a request has been sent to the user whose own request had been accepted,
\* the friendship being removed since
C33_Witness ==
  /\ result.op = "sendFriendRequest" /\ result.err = "none"
  /\ \E id \in RequestsBetween(result.fromUserId, result.toUserId, "accepted") :
       /\ friendRequests[id].fromUserId = result.toUserId
       /\ id /= result.request.id
  /\ RequestsBetween(result.fromUserId, result.toUserId, "pending") = {result.request.id}
  /\ ~areFriends(result.fromUserId, result.toUserId)

\* C34: for every valid post, of text, image or video content, one carrying a
\* mimeType or a fileSize included, deserializePost(serializePost(post))
\* returns a post equal to it field by field, the dates as epoch milliseconds.
\* (Violated: serializePost copies type, text and mediaUrl of the content and
\* nothing else.)
C34_RoundTrip ==
  result.op = "deserializePost" =>
    /\ result.err = "none"
    /\ result.restored = result.post

\* the same for the posts whose content has no other field than type, text
\* and mediaUrl
C34_RoundTripPlainContent ==
  (/\ result.op = "deserializePost"
   /\ DOMAIN result.post.content \subseteq {"type", "text", "mediaUrl"}) =>
    /\ result.err = "none"
    /\ result.restored = result.post

\* no friends_only post of the author reaches the user: getPost denies it and
\* the user's feed, taken as one page of all it has, does not hold it
Hidden(authorId, userId) ==
  LET feed == getFeed(userId, MaxPosts, 0).posts
  IN  \A i \in 1..Len(posts) :
        (posts[i].authorId = authorId /\ posts[i].visibility = "friends_only") =>
          /\ getPostResult(posts[i].id, userId).err = "AccessDenied"
          /\ \A j \in 1..Len(feed) : feed[j] /= posts[i]

\* C35: after a removeFriend by either of two friends, the friends_only posts
\* of each are denied to the other by getPost and are on no page of the
\* other's feed, those created later included, for as long as no friend
\* request between the two is accepted.
C35_AccessRevoked ==
  [][\A a, x \in {1, 2} :
       a /= x =>
         /\ (/\ result'.op = "removeFriend" /\ result'.err = "none"
             /\ {result'.userId, result'.friendId} = {a, x}) => Hidden(a, x)'
         /\ (/\ ~(result'.op = "acceptFriendRequest" /\ result'.err = "none")
             /\ ~areFriends(a, x) /\ ~areFriends(x, a)
             /\ Hidden(a, x)) =>
               (Hidden(a, x)' /\ ~areFriends(a, x)' /\ ~areFriends(x, a)')]_vars

\* the friendship of the two users has been removed by the one who is not the
\* author, and getPost has denied that user a friends_only post of the other
C35_Witness ==
  /\ result.op = "getPost" /\ result.err = "AccessDenied"
  /\ result.requesterId = 2
  /\ RequestsBetween(1, 2, "accepted") /= {}
  /\ ~areFriends(1, 2) /\ ~areFriends(2, 1)
  /\ \E i \in 1..Len(posts) :
       /\ posts[i].id = result.postId
       /\ posts[i].authorId = 1 /\ posts[i].visibility = "friends_only"

\* C36: between any two users there is at most one pending friend request,
\* the two directions counted together.
C36_OnePendingPerPair ==
  \A a, b \in UserIds : Cardinality(RequestsBetween(a, b, "pending")) <= 1

\* a request is pending between two users and a request in the other
\* direction has been refused as a duplicate
C36_Witness ==
  /\ result.op = "sendFriendRequest" /\ result.err = "DuplicateFriendRequest"
  /\ \E id \in RequestsBetween(result.fromUserId, result.toUserId, "pending") :
       friendRequests[id].fromUserId = result.toUserId
  /\ ~areFriends(result.fromUserId, result.toUserId)

\* C37: no friend request is pending, in either direction, between two users
\* who are friends, and a successful acceptFriendRequest is never that of a
\* request between two users who are friends already.
C37_NoPendingBetweenFriends ==
  [][/\ \A a, b \in UserIds :
          areFriends(a, b)' => (RequestsBetween(a, b, "pending") = {})'
     /\ \A r \in RequestIds :
          (/\ result'.op = "acceptFriendRequest" /\ result'.err = "none"
           /\ result'.requestId = r
           /\ r \in DOMAIN friendRequests /\ friendRequests[r].status = "pending") =>
            /\ ~areFriends(friendRequests[r].fromUserId, friendRequests[r].toUserId)
            /\ ~areFriends(friendRequests[r].toUserId, friendRequests[r].fromUserId)
    ]_vars

\* two users are friends and a request of one to the other has been refused
\* as a duplicate, no request being pending between them
C37_Witness ==
  /\ result.op = "sendFriendRequest" /\ result.err = "DuplicateFriendRequest"
  /\ areFriends(result.fromUserId, result.toUserId)
  /\ RequestsBetween(result.fromUserId, result.toUserId, "pending") = {}

\* the users a successful register(c.email, c.username, c.password) has made
RegisteredBy(c) ==
  {id \in DOMAIN users :
     /\ users[id].username = trim(c.username)
     /\ users[id].email = trim(toLowerCase(c.email))
     /\ verifyPassword(c.password, users[id].passwordHash)}

\* C38: once a register has succeeded, every later login with its email and
\* its password succeeds and gives a session of the user it made, whatever
\* was registered, logged in and logged out in between.  (Violated: register
\* stores the address trimmed and login looks it up untrimmed; and a later
\* register with the same address and a blank after it takes over the
\* address in the index.)
C38_LoginAfterRegister ==
  [][\A c \in RegisterCalls :
       (/\ result'.op = "login"
        /\ result'.email = c.email /\ result'.password = c.password
        /\ RegisteredBy(c) /= {}) =>
         /\ result'.err = "none"
         /\ result'.session.userId \in RegisteredBy(c)]_vars

\* C39: after showPage(name) for a name whose page element exists, the named
\* page carries 'active' and not 'hidden', and every other page element
\* carries 'hidden' and not 'active': exactly one page is displayed.
C39_OnePageVisible ==
  [][\A name \in PageNames :
       (/\ result'.op = "showPage"
        /\ result'.pageName = name
        /\ name \in DOMAIN document.pages) =>
         \A p \in PageNames :
           IF p = name
             THEN /\ "active" \in document'.pages[p]
                  /\ "hidden" \notin document'.pages[p]
             ELSE /\ "hidden" \in document'.pages[p]
                  /\ "active" \notin document'.pages[p]]_vars

\* C40: showPage with a name for which no page element exists leaves every
\* page's visibility as it was (a page displayed before the call is displayed
\* after it, and no other page is) and leaves state.currentPage unchanged.
C40_UnknownPageChangesNothing ==
  [][(/\ result'.op = "showPage"
      /\ result'.pageName \notin PageNames
      /\ document.pages # EmptyMap) =>
        /\ \A p \in PageNames :
             Displayed(document'.pages[p]) <=> Displayed(document.pages[p])
        /\ state'.currentPage = state.currentPage]_vars

====
